---- MODULE Spec2Model ----
(***************************************************************************)
(* Model of the data-acquisition core of smartmarket-ai:                   *)
(*   backend/services/scraper.py   ProductScraper (_request_get, token     *)
(*                                 refresh, the API / item-page / raw-URL  *)
(*                                 tiers, scrape_product, scrape_reviews)  *)
(*   backend/routes/meli_oauth.py  PKCE store and POST /meli/refresh       *)
(* Every outbound HTTP exchange is one step whose answer the upstream      *)
(* chooses freely (transport error, any status, any body).                 *)
(***************************************************************************)
EXTENDS Integers, Sequences, FiniteSets, TLC

\* ------------------------------------------------------------------ bounds
\* Successful token responses the token endpoint issues in one behaviour.
MaxTokens == 1
\* Largest clock value of the PKCE model.
MaxClock == 4
\* MELI_PKCE_TTL, the age beyond which a handshake entry is expired, in ticks
\* of the model's clock (the program's default is 600 seconds).
PKCE_TTL_SECONDS == 2
\* max_per_minute, window_seconds and the deque's maxlen of the rate limiter,
\* in the model's scale (the program's values are 10, 60.0 and 1000).
MaxPerMinute == 2
WindowSeconds == 2
QueueMaxLen == 3
\* Analyses of one product in one behaviour.
MaxRuns == 2
\* Reviews in one batch, and whitespace-separated tokens in one review text.
MaxBatch == 3
MaxWords == 2
\* Parameters in the query string, and in the fragment, of one URL.
MaxParams == 2
\* top_n of the keyword extraction and the size below which the frequency
\* fallback fills the list, in the model's scale (the program's values are 15
\* and max(5, 15 // 2) = 7); the extraction calls recorded for one batch.
TopN == 3
FallbackBelow == 2
MaxAnalyses == 2
\* Token requests recorded for one handshake state.
MaxPosts == 2
\* Admitted calls of one key after which no further concurrent or guarded call
\* is started.
MaxCalls == 3
\* JSON-LD scripts, and gallery images, in one page.
MaxScripts == 1
MaxImgs == 1

\* ------------------------------------------------------- program constants
ApiRetries == 2
PageRetries == 1

\* --------------------------------------------------------------- the values
Threads == {1, 2}
NoToken == 0
InitToken == 1
Tokens == 0..(MaxTokens + 1)

NoName == "<None>"
EmptyName == ""
Placeholder == "Unknown Product"
NoItem == "<None>"
ItemId == "MLA123456789"

\* A URL as far as the code looks at it: does it contain "mercadolibre", which
\* item ID _extract_meli_item_id derives, which host it names, and does the
\* text "api.mercadolibre.com" occur anywhere in it (host and text are read
\* only when the URL itself is fetched, which needs a URL without item ID).
InputUrls ==
    { \* https://www.amazon.com/dp/B000
      [ml |-> FALSE, item |-> NoItem, host |-> "other", apiSub |-> FALSE],
      \* https://articulo.mercadolibre.com.ar/MLA-123456789-x
      [ml |-> TRUE, item |-> ItemId, host |-> "page", apiSub |-> FALSE],
      \* https://www.mercadolibre.com.ar/ofertas
      [ml |-> TRUE, item |-> NoItem, host |-> "page", apiSub |-> FALSE],
      \* https://www.mercadolibre.com.ar/ofertas?ref=api.mercadolibre.com
      [ml |-> TRUE, item |-> NoItem, host |-> "page", apiSub |-> TRUE],
      \* https://api.mercadolibre.com/sites/MLA
      [ml |-> TRUE, item |-> NoItem, host |-> "api", apiSub |-> TRUE] }

NoUrl == [what |-> "none", host |-> "other", apiSub |-> FALSE]

\* ------------------------------------------------------- item-page URLs
\* A text as the page tiers look at it: its first three characters and the
\* rest, in pieces. An item ID is a site prefix and digits.
Text(prefix, rest) == [prefix |-> prefix, rest |-> rest]
SitePrefixes == {"MLA", "MLB", "MLM", "MLC", "MCO", "MLU", "MLV", "MPE", "ABC"}
ItemDigits == {"123456789", "-123456789", "2676566586", "222222"}
ItemIds == {Text(p, <<d>>) : p \in SitePrefixes, d \in ItemDigits}
ItemText(item) == Text("MLA", <<"123456789">>)

\* tld_map.get(prefix, 'com.ar')
TldOf(prefix) ==
    CASE prefix = "MLA" -> "com.ar"
      [] prefix = "MLB" -> "com.br"
      [] prefix = "MLM" -> "com.mx"
      [] prefix = "MLC" -> "cl"
      [] prefix = "MCO" -> "com.co"
      [] prefix = "MLU" -> "com.uy"
      [] prefix = "MLV" -> "com.ve"
      [] prefix = "MPE" -> "com.pe"
      [] OTHER -> "com.ar"

\* (item_id[:3] or '').upper() of a text: site prefixes are upper case already
UpperPrefix(text) == IF text.prefix = "htt" THEN "HTT" ELSE text.prefix

\* f"https://articulo.mercadolibre.{tld}/{item_id}", the tld looked up under
\* the first three characters of item_id
ArticleAddress(item_id) ==
    [tld |-> TldOf(UpperPrefix(item_id)),
     path |-> <<item_id.prefix>> \o item_id.rest]

\* what scrape_reviews_api hands to _scrape_mercadolibre_reviews after a failed
\* API request: f"https://articulo.mercadolibre.com.ar/{item_id}"
FallbackArgument(item_id) ==
    Text("htt", <<"ps://articulo.mercadolibre.com.ar/", item_id.prefix>> \o item_id.rest)

\* https://api.mercadolibre.com/items/{item_id}
ApiItemUrl(item) == [what |-> "api_item", host |-> "api", apiSub |-> TRUE]
\* https://api.mercadolibre.com/reviews/item/{item_id}?limit={n}
ApiReviewsUrl(item) == [what |-> "api_reviews", host |-> "api", apiSub |-> TRUE]
\* https://articulo.mercadolibre.{tld}/{item_id}: item IDs are upper-cased, so
\* the lower-case API host name never occurs in it.
ArticleUrl(item) == [what |-> "item_page", host |-> "page", apiSub |-> FALSE]
\* _scrape_mercadolibre_reviews called with a URL in place of the item ID
ArticleUrlOfUrl(item) ==
    [what |-> "reviews_page",
     canonical |-> (ArticleAddress(FallbackArgument(ItemText(item)))
                      = ArticleAddress(ItemText(item))),
     host |-> "page", apiSub |-> FALSE]
\* the item page as _scrape_mercadolibre_reviews requests it for an item ID
ReviewsArticleUrl(item) == [what |-> "reviews_page", canonical |-> TRUE, host |-> "page", apiSub |-> FALSE]
\* the caller's URL fetched as it is
RawUrl(u) == [what |-> "raw", host |-> u.host, apiSub |-> u.apiSub]

\* An image URL as _normalize_image_url looks at it: how it begins, and the
\* rest. NoImage is Python's None, EmptyImage the empty string.
NoImage == [scheme |-> "<None>", rest |-> ""]
EmptyImage == [scheme |-> "", rest |-> ""]
OgImg == [scheme |-> "//", rest |-> "img/og.jpg"]
TwImg == [scheme |-> "http://", rest |-> "img/tw.jpg"]
LdImg == [scheme |-> "https://", rest |-> "img/ld.jpg"]
ZoomImg == [scheme |-> "//", rest |-> "img/zoom.jpg"]
SrcImg == [scheme |-> "https://", rest |-> "img/src.jpg"]
\* the URL of the n-th file named in a srcset: c1.jpg < c2.jpg < c3.jpg as text
CandImg(n) == [scheme |-> "https://", rest |-> <<"img/c1.jpg", "img/c2.jpg", "img/c3.jpg">>[n]]

TruthyImage(u) == u \notin {NoImage, EmptyImage}

\* _normalize_image_url: None for None and '', https: put before '//',
\* http:// turned into https://
NormalizeImageUrl(u) ==
    IF ~TruthyImage(u) THEN NoImage
    ELSE IF u.scheme \in {"//", "http://"} THEN [u EXCEPT !.scheme = "https://"]
    ELSE u

\* a price as the tiers return it: None or a float
NoPrice == [kind |-> "None", v |-> 0]
Price(v) == [kind |-> "float", v |-> v]
TruthyPrice(p) == p.kind = "float" /\ p.v # 0

ApiImg == [scheme |-> "http://", rest |-> "img/api.jpg"]

\* ------------------------------------------------------- upstream answers
Statuses == {200, 304, 401, 500}

\* body of GET /items/{id}
ApiItemBodies ==
    {[kind |-> "notjson"], [kind |-> "notobj"]}
    \cup {[kind |-> "obj", title |-> n, thumbnail |-> ApiImg, price |-> Price(100)] :
            n \in {NoName, "unknown", "API Title"}}
\* body of GET /reviews/item/{id}
ApiReviewBodies ==
    {[kind |-> "notjson"], [kind |-> "notobj"]}
    \cup {[kind |-> "obj", n |-> k, reviewerNull |-> b] :
            k \in 0..1, b \in BOOLEAN}
\* an item page as the product tiers read it: og:title, og:image, the name of
\* a JSON-LD Product without offers and without image
PageBodies ==
    [kind : {"html"}, ogTitle : {NoName, EmptyName, "OG Title"},
     ogImage : {OgImg}, ldName : {NoName, "LD Name"}]
\* an item page as _scrape_mercadolibre_reviews reads it: its div.review
\* blocks, and whether BeautifulSoup and the selectors get through it
ReviewPageBodies ==
    [kind : {"html"}, nReviews : 0..1, parses : {TRUE}]
    \cup {[kind |-> "html", nReviews |-> 1, parses |-> FALSE]}

BodiesOf(u) ==
    CASE u.what = "api_item" -> ApiItemBodies
      [] u.what = "api_reviews" -> ApiReviewBodies
      [] u.what = "reviews_page" -> ReviewPageBodies
      [] OTHER -> PageBodies

NoResp == [status |-> 0]
\* the body of an error answer is never read
NoBody == [kind |-> "error"]
Responses(u) ==
    [status : {s \in Statuses : s < 400}, body : BodiesOf(u)]
    \cup [status : {s \in Statuses : s >= 400}, body : {NoBody}]

\* the same answers from an upstream that names no image
WithoutImage(resp) ==
    IF "thumbnail" \in DOMAIN resp.body
    THEN [resp EXCEPT !.body = [resp.body EXCEPT !.thumbnail = NoImage]]
    ELSE IF "ogImage" \in DOMAIN resp.body
    THEN [resp EXCEPT !.body = [resp.body EXCEPT !.ogImage = NoImage]]
    ELSE resp

NoExc == [type |-> "none"]
TransportError == [type |-> "transport"]
HttpError(s) == [type |-> "http", status |-> s]
JsonError == [type |-> "json"]

NoTokenResp == [kind |-> "none"]

\* Response.json() on a body that is not JSON raises requests' JSONDecodeError,
\* a RequestException from requests 2.27 on and a plain ValueError before: the
\* installed version decides which.
JsonErrorIsRequestException == BOOLEAN

\* handshake states (secrets.token_urlsafe(16)) and verifiers
States == {"s1", "s2"}
Verifiers == {"v1", "v2"}
NoState == "<None>"
Absent == "<None>"
NoEntry == [verifier |-> Absent, ts |-> 0]
NoPop == [state |-> NoState, result |-> Absent, nth |-> 0, age |-> 0, status |-> 0,
          pre |-> [s \in States |-> NoEntry]]

\* rate-limit keys ("<client ip>:<path>")
Keys == {"k1", "k2"}
NoKey == "<None>"
NoCall == [key |-> NoKey, at |-> 0, admitted |-> FALSE, inWindow |-> 0]

\* the parts of a URL that _extract_meli_item_id looks at
UrlPaths == {"/ofertas", "/p/ABC1234567", "/p/abc1234567", "/MLA-123456789-titulo"}
UrlParams ==
    { [key |-> "wid", value |-> ""],
      [key |-> "wid", value |-> "def999"],
      [key |-> "item_id", value |-> "MLB222222"],
      [key |-> "ref", value |-> "MLB987654321"] }
NoExUrl == [path |-> "", query |-> <<>>, fragment |-> <<>>, parses |-> TRUE]
Pending == "<pending>"

\* review texts are sequences of whitespace-separated tokens
Vocabulary == {"excellent", "quality", "Great", "bad", "phone", "!!", "¡¿", "no", "funciona"}
NoText == <<"<None>">>
NoRating == -100
NoSummary == [total_reviews |-> -1]

\* the sequences over S of length up to n
SeqsUpTo(S, n) == UNION {[1..k -> S] : k \in 0..n}

VARIABLES
    th,            \* per thread: the call it runs and where it stands
    accessToken,   \* scraper.access_token
    envAccess,     \* os.environ["MERCADO_LIBRE_ACCESS_TOKEN"]
    envRefresh,    \* os.environ["MERCADO_LIBRE_REFRESH_TOKEN"]
    clientId,      \* MELI_CLIENT_ID is set
    clientSecret,  \* MELI_CLIENT_SECRET is set
    strictApi,     \* MELI_STRICT_API
    issued,        \* token responses issued so far by the token endpoint
    exchanged,     \* refresh tokens the token endpoint has exchanged
    lastIssued,    \* the tokens of the latest token response
    raceSeen,      \* history: a refresh sent a token exchanged since it read it
    redirectUri,   \* MELI_REDIRECT_URI is set
    PKCE_STORE,    \* meli_oauth.PKCE_STORE: state -> {verifier, ts}
    now,           \* time.time()
    pkIssued,      \* history: state -> what meli_login stored for it, and when
    pkPops,        \* history: state -> consume calls since it was issued
    lastPop,       \* history: the latest consume call and what it returned
    RATE_STATE,    \* rate_limit.RATE_STATE: key -> deque of admitted timestamps
    rlAdmitted,    \* history: key -> timestamps of every admitted call, in order
    lastCall,      \* history: the latest rate_limit call and its outcome
    rlDropped,     \* history: an append pushed a timestamp out of a full deque
    reviews,       \* the batch handed to analyze_reviews
    sentiments,    \* analyze_reviews: the per-review results
    summary,       \* what analyze_reviews returned
    exUrl,         \* the URL handed to _extract_meli_item_id
    exId,          \* what _extract_meli_item_id returned
    page,          \* the page handed to the two page-scrape tiers
    htmlOut,       \* what _scrape_mercadolibre_html extracted from it
    byUrlOut,      \* what _scrape_mercadolibre_html_by_url extracted from it
    plPc,          \* analyze_product_complete: where the call stands
    plUrl,         \* product.url
    product,       \* the Product row
    dbReviews,     \* the Review rows of the product
    analysis,      \* the AnalysisResult row the call stored
    plErr,         \* the exception that left analyze_product_complete
    plProduct,     \* history: product_info and the API payload it was built from
    plImage,       \* history: the image of alt, once the original URL was fetched
    artItem,       \* the item ID whose page is asked for
    artVia,        \* which caller built the page URL
    artUrl,        \* the page URL requested
    rlTh,          \* each request thread inside rate_limit: its position, key and now
    pkTh,          \* each request thread inside the PKCE store functions
    pkGot,         \* history: state -> the verifiers consume calls returned for it
    pkPosts,       \* history: state -> the outcomes of the token requests sent with its verifier
    lastCb,        \* history: the latest callback request and its answer
    hashOrder,     \* the iteration order of a set of words in the running process
    kwProc,        \* the process that is running: 1, or 2 after a restart
    kwOut,         \* history: what each _extract_sentiment_weighted_keywords call returned
    lastReq,       \* history: the latest request to a guarded endpoint and its answer
    plRuns         \* the completed analyses: the rows scraped and the summary stored by each

vars == <<th, accessToken, envAccess, envRefresh, clientId, clientSecret, strictApi,
          issued, exchanged, lastIssued, raceSeen,
          redirectUri, PKCE_STORE, now, pkIssued, pkPops, lastPop,
          RATE_STATE, rlAdmitted, lastCall, rlDropped,
          reviews, sentiments, summary, exUrl, exId,
          page, htmlOut, byUrlOut,
          plPc, plUrl, product, dbReviews, analysis, plErr, plProduct, plImage,
          artItem, artVia, artUrl,
          rlTh,
          pkTh, pkGot,
          pkPosts, lastCb,
          hashOrder, kwProc, kwOut,
          lastReq,
          plRuns>>
config == <<clientId, clientSecret, strictApi>>
creds == <<accessToken, envAccess, envRefresh>>
server == <<issued, exchanged, lastIssued, raceSeen>>
pkce == <<redirectUri, PKCE_STORE, now, pkIssued, pkPops, lastPop>>
\* what the acquisition service and POST /meli/refresh never touch
rate == <<RATE_STATE, rlAdmitted, lastCall, rlDropped>>
sentiment == <<reviews, sentiments, summary>>
extract == <<exUrl, exId>>
pageEx == <<page, htmlOut, byUrlOut>>
pipeline == <<plPc, plUrl, product, dbReviews, analysis, plErr, plProduct, plImage>>
article == <<artItem, artVia, artUrl>>
rateConc == <<rlTh>>
pkceConc == <<pkTh, pkGot>>
callback == <<pkPosts, lastCb>>
kw == <<hashOrder, kwProc, kwOut>>
guard == <<lastReq>>
reruns == <<plRuns>>
notHttp == <<pkce, rate, sentiment, extract, pageEx, pipeline, article, rateConc, pkceConc, callback, kw, guard, reruns>>
\* what the PKCE handshake never touches
notCallback == <<th, creds, strictApi, server, rate, sentiment, extract, pageEx, pipeline,
                article, rateConc, pkceConc, kw, guard, reruns>>
notPkceConc == <<th, creds, strictApi, server, rate, sentiment, extract, pageEx, pipeline,
                article, rateConc, callback, kw, guard, reruns>>
notPkce == <<notPkceConc, pkceConc>>
\* what the rate limiter never touches, the clock apart
notGuard == <<th, creds, config, server, redirectUri, PKCE_STORE, pkIssued, pkPops,
                lastPop, sentiment, extract, pageEx, pipeline, article, pkceConc, callback, kw, reruns>>
notRateConc == <<th, creds, config, server, redirectUri, PKCE_STORE, pkIssued, pkPops,
                lastPop, sentiment, extract, pageEx, pipeline, article, pkceConc, callback, kw, guard, reruns>>
notRate == <<notRateConc, rateConc>>
\* what the sentiment analyzer never touches
notKeywords == <<th, creds, config, server, pkce, rate, extract, pageEx, pipeline, article, rateConc, pkceConc, callback, guard, reruns>>
notSentiment == <<notKeywords, kw>>
\* what _extract_meli_item_id never touches
notExtract == <<th, creds, config, server, pkce, rate, sentiment, pageEx, pipeline, article, rateConc, pkceConc, callback, kw, guard, reruns>>

\* what neither the acquisition service nor the analysis pipeline touches
notRerun == <<pkce, rate, sentiment, extract, pageEx, article, rateConc, pkceConc, callback, kw, guard>>
notAnalysis == <<notRerun, reruns>>
\* what the construction of the item-page URL never touches
notArticle == <<th, creds, config, server, pkce, rate, sentiment, extract, pageEx, pipeline, rateConc, pkceConc, callback, kw, guard, reruns>>
\* what the page extraction never touches
notPage == <<th, creds, config, server, pkce, rate, sentiment, extract, pipeline, article, rateConc, pkceConc, callback, kw, guard, reruns>>

\* ------------------------------------------------------------ thread state
NoResult == [kind |-> "none"]
NoLog == [event |-> "none"]

IdleThread ==
    [pc |-> "idle", op |-> "none", url |-> NoUrl, ctx |-> "none",
     \* _request_get's arguments and locals
     rgUrl |-> NoUrl, hasAuth |-> FALSE, hdrTok |-> NoToken, retries |-> 0,
     attempt |-> 0, resp |-> NoResp, lastExc |-> NoExc, rgOut |-> "none",
     \* _refresh_access_token_if_possible's / meli_refresh's locals
     rt |-> NoToken, tokResp |-> NoTokenResp,
     \* scrape_product_api's api_name, the value returned, the last log record
     apiName |-> NoName, result |-> NoResult, logged |-> NoLog,
     \* scrape_product_api's data, once response.json() returned an object
     data |-> NoBody,
     \* history of the running call (read by the properties only)
     hApiGets |-> 0, hApiNon401 |-> FALSE, hPageGets |-> 0, hTokenPosted |-> FALSE,
     hTokenPosts |-> 0, hAttempts |-> 0, hRefreshInAttempt |-> 0,
     hRegetInAttempt |-> 0, hRefreshInCall |-> 0, hErrOfAttempt |-> NoExc,
     hGetAfter2xx |-> FALSE, hSaw2xx |-> FALSE, hBadRefresh |-> FALSE, hRtExAtRead |-> FALSE,
     hRfRet |-> "none", hPre |-> <<NoToken, NoToken, NoToken>>,
     hSentTok |-> NoToken]

IsResponse(out) == "status" \in DOMAIN out

\* ------------------------------------------------- ProductScraper._request_get
\* resp.raise_for_status(): HTTPError for 4xx and 5xx
RaisesForStatus(status) == status >= 400

\* "api.mercadolibre.com" in url
IsMlApiUrl(u) == u.apiSub

\* faulty variants of AttemptsAllowed: range(retries), range(retries + 2)
AttemptsAllowed_Short(retries) == retries
AttemptsAllowed_Long(retries) == retries + 2

\* for attempt in range(retries + 1)
AttemptsAllowed(retries) == retries + 1

\* the call _request_get(url, headers, timeout, retries) begins
BeginRequestGet(r, ctx, u, auth, tok, retries) ==
    [r EXCEPT !.pc = "rg_get", !.ctx = ctx, !.rgUrl = u, !.hasAuth = auth,
              !.hdrTok = tok, !.retries = retries, !.attempt = 0,
              !.resp = NoResp, !.lastExc = NoExc, !.rgOut = "none",
              !.logged = NoLog, !.hRfRet = "none",
              !.hPre = <<NoToken, NoToken, NoToken>>, !.hSentTok = NoToken,
              !.hAttempts = 1, !.hTokenPosts = 0, !.hRefreshInAttempt = 0,
              !.hRegetInAttempt = 0, !.hRefreshInCall = 0,
              !.hErrOfAttempt = NoExc, !.hGetAfter2xx = FALSE, !.hSaw2xx = FALSE]

\* except RequestException as e: last_exc = e; sleep; next attempt, and after
\* the last one: raise last_exc
HandleRequestException(r, e) ==
    IF r.attempt + 1 < AttemptsAllowed(r.retries)
    THEN [r EXCEPT !.pc = "rg_get", !.attempt = @ + 1, !.lastExc = e,
                   !.resp = NoResp]
    ELSE [r EXCEPT !.pc = "rg_ret", !.attempt = @ + 1, !.lastExc = e,
                   !.rgOut = "raise", !.resp = NoResp]

\* resp.raise_for_status(); return resp
RaiseForStatusOrReturn(r, resp) ==
    IF RaisesForStatus(resp.status)
    THEN HandleRequestException(r, HttpError(resp.status))
    ELSE [r EXCEPT !.pc = "rg_ret", !.rgOut = "return", !.resp = resp]

\* an exception that is not a RequestException leaves _request_get at once
Propagate(r, e) ==
    [r EXCEPT !.pc = "rg_ret", !.rgOut = "propagate", !.lastExc = e, !.resp = NoResp]

\* the answer to the attempt's first requests.get
OnAnswer(r, out) ==
    IF ~IsResponse(out) THEN HandleRequestException(r, out)
    ELSE IF out.status = 401 /\ IsMlApiUrl(r.rgUrl)
         THEN [r EXCEPT !.pc = "rf_read", !.resp = out,
                        !.logged = [event |-> "ml_unauthorized"]]
         ELSE RaiseForStatusOrReturn(r, out)

\* the answer to the request re-issued after a refresh
OnAnswerAfterRefresh(r, out) ==
    IF ~IsResponse(out) THEN HandleRequestException(r, out)
    ELSE RaiseForStatusOrReturn(r, out)

\* history: one more GET was sent to r.rgUrl and answered by out
CountGet(r, out) ==
    [r EXCEPT !.hRfRet = "none", !.tokResp = NoTokenResp,
              !.hPre = <<NoToken, NoToken, NoToken>>,
              !.hApiGets = @ + (IF r.rgUrl.host = "api" THEN 1 ELSE 0),
              !.hPageGets = @ + (IF r.rgUrl.host = "api" THEN 0 ELSE 1),
              !.hApiNon401 = @ \/ (r.rgUrl.host = "api"
                                    /\ ~(IsResponse(out) /\ out.status = 401)),
              !.hGetAfter2xx = @ \/ r.hSaw2xx,
              !.hSaw2xx = @ \/ (IsResponse(out) /\ out.status \in 200..299)]

\* history: what the step made of the attempt
CountOutcome(old, new, e) ==
    [new EXCEPT !.hErrOfAttempt = IF new.attempt > old.attempt THEN e ELSE @,
                !.hAttempts = IF new.pc = "rg_get" /\ new.attempt > old.attempt
                              THEN @ + 1 ELSE @,
                !.hRefreshInAttempt =
                    IF new.pc = "rg_get" /\ new.attempt > old.attempt THEN 0
                    ELSE IF new.pc = "rf_read" THEN @ + 1 ELSE @,
                !.hRegetInAttempt =
                    IF new.pc = "rg_get" /\ new.attempt > old.attempt THEN 0 ELSE @,
                !.hRefreshInCall = IF new.pc = "rf_read" THEN @ + 1 ELSE @,
                !.hBadRefresh = @ \/ (new.pc = "rf_read"
                                       /\ ~(new.resp.status = 401
                                            /\ new.rgUrl.host = "api"))]

ErrOf(out) == IF IsResponse(out) THEN HttpError(out.status) ELSE out

\* requests.get(url, headers=hdrs, timeout=timeout) and what follows it up to
\* the next network exchange
RgGet(t, answers) ==
    /\ th[t].pc = "rg_get"
    /\ \E out \in answers :
         LET r == CountGet(th[t], out) IN
         th' = [th EXCEPT ![t] = CountOutcome(r, OnAnswer(r, out), ErrOf(out))]
    /\ UNCHANGED <<creds, config, server, notHttp>>

\* ------------------------- ProductScraper._refresh_access_token_if_possible
TokenAnswers ==
    {[kind |-> "transport"], [kind |-> "status_err"], [kind |-> "notjson"],
     [kind |-> "notobj"]}
    \cup [kind : {"obj"}, hasAccess : BOOLEAN, hasRefresh : BOOLEAN]

\* the token response the endpoint issues next: {access_token, refresh_token?}
Grant(ans) ==
    [kind |-> "obj",
     access |-> IF ans.hasAccess THEN issued + 2 ELSE NoToken,
     refresh |-> IF ans.hasRefresh THEN issued + 2 ELSE NoToken]

\* the token endpoint handles a refresh_token grant carrying rt
ServerExchange(rt, exAtRead, ans) ==
    /\ raceSeen' = (raceSeen \/ (rt \in exchanged /\ ~exAtRead))
    /\ IF ans.kind = "obj"
       THEN /\ issued' = issued + 1
            /\ exchanged' = exchanged \cup {rt}
            /\ lastIssued' = [access |-> IF ans.hasAccess THEN issued + 2
                                          ELSE lastIssued.access,
                              refresh |-> IF ans.hasRefresh THEN issued + 2
                                           ELSE lastIssued.refresh]
       ELSE UNCHANGED <<issued, exchanged, lastIssued>>

\* a faulty RefreshConfigured: the refresh token is not looked at
RefreshConfigured_NoTokenCheck(cid, csec, rt) == cid /\ csec

\* if not (self.meli_client_id and self.meli_client_secret and refresh_token)
RefreshConfigured(cid, csec, rt) == cid /\ csec /\ rt # NoToken

\* the record logged when the configuration is incomplete
MissingConfigLog(cid, csec, rt) ==
    [event |-> "ml_refresh_missing_config", has_client_id |-> cid,
     has_client_secret |-> csec, has_refresh_token |-> (rt # NoToken)]

\* new_access = token.get("access_token"); if new_access: ... = new_access
NewAccess(cur, token) == IF token.access # NoToken THEN token.access ELSE cur

\* new_refresh = token.get("refresh_token"); if new_refresh: ... = new_refresh
NewRefresh(cur, token) == IF token.refresh # NoToken THEN token.refresh ELSE cur

\* the refresh's locals go out of scope
LeaveRefresh(r) == [r EXCEPT !.rt = NoToken, !.hRtExAtRead = FALSE]

\* refresh returned False: _request_get goes on to resp.raise_for_status()
RefreshFalse(r, log) ==
    RaiseForStatusOrReturn([r EXCEPT !.logged = log, !.hRfRet = "false",
                                     !.rt = NoToken, !.hRtExAtRead = FALSE], r.resp)

\* refresh_token = os.getenv(...); the configuration check
RefreshRead(r, cid, csec, rt, ex) ==
    IF ~RefreshConfigured(cid, csec, rt)
    THEN RefreshFalse(r, MissingConfigLog(cid, csec, rt))
    ELSE [r EXCEPT !.pc = "rf_post", !.rt = rt, !.hRtExAtRead = ex]

\* requests.post(self.meli_token_url, ...) answered by ans
RefreshPosted(r, ans, grant, jsonCaught) ==
    CASE ans.kind = "transport" ->
           RefreshFalse(r, [event |-> "ml_refresh_failed"])
      [] ans.kind = "status_err" ->
           RefreshFalse(r, [event |-> "ml_refresh_http_error"])
      [] ans.kind = "notjson" ->
           IF jsonCaught THEN HandleRequestException(LeaveRefresh(r), JsonError)
           ELSE Propagate(LeaveRefresh(r), [type |-> "ValueError"])
      [] ans.kind = "notobj" ->
           Propagate(LeaveRefresh(r), [type |-> "AttributeError"])
      [] OTHER -> [r EXCEPT !.pc = "rf_wacc", !.tokResp = grant]

RfRead(t) ==
    /\ th[t].pc = "rf_read"
    /\ LET r == [th[t] EXCEPT !.hPre = <<accessToken, envAccess, envRefresh>>,
                              !.hRfRet = "none"]
       IN th' = [th EXCEPT ![t] =
                   CountOutcome(r, RefreshRead(r, clientId, clientSecret, envRefresh,
                                               envRefresh \in exchanged),
                                HttpError(401))]
    /\ UNCHANGED <<creds, config, server, notHttp>>

RfPost(t, answers) ==
    /\ th[t].pc = "rf_post"
    /\ \E ans \in answers, jsonCaught \in JsonErrorIsRequestException :
         /\ (ans.kind = "obj") => (issued < MaxTokens)
         /\ (ans.kind # "notjson") => jsonCaught
         /\ LET r == [th[t] EXCEPT !.hTokenPosts = @ + 1, !.hTokenPosted = TRUE] IN
            th' = [th EXCEPT ![t] =
                     CountOutcome(r, RefreshPosted(r, ans, Grant(ans), jsonCaught),
                                  IF ans.kind = "notjson" THEN JsonError
                                  ELSE HttpError(401))]
         /\ ServerExchange(th[t].rt, th[t].hRtExAtRead, ans)
    /\ UNCHANGED <<creds, config, notHttp>>

\* self.access_token = new_access; os.environ[...ACCESS_TOKEN] = new_access
RfWriteAccess(t) ==
    /\ th[t].pc = "rf_wacc"
    /\ accessToken' = NewAccess(accessToken, th[t].tokResp)
    /\ envAccess' = NewAccess(envAccess, th[t].tokResp)
    /\ th' = [th EXCEPT ![t].pc = "rf_wref"]
    /\ UNCHANGED <<envRefresh, config, server, notHttp>>

\* os.environ[...REFRESH_TOKEN] = new_refresh; return True
RfWriteRefresh(t) ==
    /\ th[t].pc = "rf_wref"
    /\ envRefresh' = NewRefresh(envRefresh, th[t].tokResp)
    /\ th' = [th EXCEPT ![t].pc = "rg_reget",
                        ![t].logged = [event |-> "ml_token_refreshed"],
                        ![t].rt = NoToken, ![t].hRtExAtRead = FALSE,
                        ![t].hRfRet = "true"]
    /\ UNCHANGED <<accessToken, envAccess, config, server, notHttp>>

\* if "Authorization" in hdrs: hdrs["Authorization"] = f"Bearer {self.access_token}"
ReissueToken(r, cur) == IF r.hasAuth THEN cur ELSE r.hdrTok

\* resp = requests.get(url, headers=hdrs, timeout=timeout) after the refresh
RgReget(t, answers) ==
    /\ th[t].pc = "rg_reget"
    /\ \E out \in answers :
         LET r0 == [th[t] EXCEPT !.hdrTok = ReissueToken(th[t], accessToken),
                                !.hSentTok = ReissueToken(th[t], accessToken),
                                !.hRegetInAttempt = @ + 1]
             r == CountGet(r0, out)
         IN th' = [th EXCEPT ![t] =
                     CountOutcome(r, OnAnswerAfterRefresh(r, out), ErrOf(out))]
    /\ UNCHANGED <<creds, config, server, notHttp>>

\* ------------------------------------------------------------- the tiers
Snapshot(name, tier, image, price) ==
    [kind |-> "snapshot", name |-> name, tier |-> tier, image |-> image,
     price |-> price]
ReviewList(n, tier) == [kind |-> "list", n |-> n, tier |-> tier]
ReturnsNone == [kind |-> "None"]
Raised(e) == [kind |-> "raised", exc |-> e]

Done(r, res) ==
    [r EXCEPT !.pc = "done", !.result = res, !.hRfRet = "none",
              !.hPre = <<NoToken, NoToken, NoToken>>]

\* Python truth of an optional string
Truthy(n) == n \notin {NoName, EmptyName}

\* (not api_name) or str(api_name).strip().lower() in {"unknown product",
\* "unknown", "undefined"}
NameNeedsHtml(n) ==
    ~Truthy(n) \/ n \in {"unknown product", "unknown", "undefined", "Unknown Product"}

\* ------------------------------------------------------- page extraction
\* the offers of a JSON-LD Product: absent, or a dict whose price is a number
\* (0 included) or a text float() rejects
NoOffers == [kind |-> "absent", ok |-> TRUE, v |-> 0]
Offers == {NoOffers} \cup [kind : {"dict"}, ok : {TRUE}, v : {0, 10}]
                     \cup [kind : {"dict"}, ok : {FALSE}, v : {0}]
\* the image of a JSON-LD Product: absent, a string, a list of one string
LdImages == {[kind |-> "absent", url |-> NoImage], [kind |-> "str", url |-> LdImg],
             [kind |-> "list", url |-> LdImg]}
\* a script of type application/ld+json: a Product, or anything else
NotProduct == [type |-> "Other", name |-> NoName, offers |-> NoOffers,
               image |-> [kind |-> "absent", url |-> NoImage]]
LdScripts ==
    {NotProduct} \cup [type : {"Product"}, name : {NoName, "LD Name"},
                       offers : Offers, image : LdImages]

\* a srcset candidate: the n-th file and its descriptor ('', '<n>x' or '<n>w')
Cand(n, kind, k) == [url |-> n, kind |-> kind, n |-> k]
Srcsets ==
    { <<>>,
      <<Cand(1, "none", 0)>>,
      <<Cand(1, "x", 1), Cand(2, "x", 2), Cand(3, "x", 3)>>,
      <<Cand(2, "w", 300), Cand(1, "w", 100)>> }
\* an <img> the gallery selector matches: data-zoom, srcset, src
GalleryImgs ==
    [zoom : {NoImage, ZoomImg}, srcset : Srcsets, src : {NoImage, SrcImg}]

\* a page as the product tiers read it
Pages ==
    [ogTitle : {NoName, EmptyName, "OG Title"},
     ogImage : {NoImage, EmptyImage, OgImg},
     twImage : {NoImage, TwImg},
     scripts : SeqsUpTo(LdScripts, MaxScripts),
     gallery : SeqsUpTo(GalleryImgs, MaxImgs)]

\* pick_best_from_srcset's score of a candidate: 2000 when its descriptor
\* contains '2x', the number before 'w', else 0
CandScore(c) ==
    IF c.kind = "x" /\ c.n % 10 = 2 THEN 2000
    ELSE IF c.kind = "w" THEN c.n
    ELSE 0

\* (score, url) tuples compared as candidates.sort(reverse=True) compares them
CandBefore(a, b) ==
    \/ CandScore(a) > CandScore(b)
    \/ CandScore(a) = CandScore(b) /\ a.url >= b.url

\* pick_best_from_srcset: the first of the candidates sorted in reverse, None
\* for an empty srcset
PickBestFromSrcset(srcset) ==
    IF srcset = <<>> THEN NoImage
    ELSE LET i == CHOOSE i \in DOMAIN srcset :
                      \A j \in DOMAIN srcset : CandBefore(srcset[i], srcset[j])
         IN CandImg(srcset[i].url)

\* what one gallery <img> yields: data-zoom, else the best of srcset, else src
ImgYield(img) ==
    IF TruthyImage(img.zoom) THEN NormalizeImageUrl(img.zoom)
    ELSE IF TruthyImage(PickBestFromSrcset(img.srcset))
         THEN NormalizeImageUrl(PickBestFromSrcset(img.srcset))
    ELSE IF TruthyImage(img.src) THEN NormalizeImageUrl(img.src)
    ELSE NoImage

\* the gallery loop: the first <img>, in document order, that yields an image
RECURSIVE GalleryImage(_)
GalleryImage(imgs) ==
    IF imgs = <<>> THEN NoImage
    ELSE IF TruthyImage(ImgYield(Head(imgs))) THEN ImgYield(Head(imgs))
    ELSE GalleryImage(Tail(imgs))

\* name and image after the OpenGraph and Twitter Card tags were read
MetaTags(pg) ==
    LET og == IF pg.ogImage # NoImage THEN NormalizeImageUrl(pg.ogImage) ELSE NoImage
    IN [name |-> pg.ogTitle, price |-> NoPrice,
        image |-> IF TruthyImage(og) THEN og
                  ELSE IF TruthyImage(pg.twImage) THEN NormalizeImageUrl(pg.twImage)
                  ELSE og]

\* name = name or data.get('name')
NameOr(name, other) == IF Truthy(name) THEN name ELSE other

\* float(offers.get('price', 0)) or None
FloatOrNone(offers) == IF offers.v = 0 THEN NoPrice ELSE Price(offers.v)

\* _scrape_mercadolibre_html: the image after one JSON-LD Product; the
\* assignment stands inside 'if isinstance(offers, dict)', after the price,
\* so it is skipped without offers and when float() raises
HtmlLdImage(acc, d) ==
    IF d.offers.kind # "dict" THEN acc.image
    ELSE IF ~TruthyPrice(acc.price) /\ ~d.offers.ok THEN acc.image
    ELSE IF TruthyImage(acc.image) THEN acc.image
    ELSE IF d.image.kind = "str" THEN d.image.url
    ELSE NoImage

\* _scrape_mercadolibre_html: one pass of the JSON-LD loop
HtmlLd(acc, d) ==
    IF d.type # "Product" THEN acc
    ELSE [name |-> NameOr(acc.name, d.name),
          price |-> IF d.offers.kind # "dict" \/ TruthyPrice(acc.price) THEN acc.price
                    ELSE IF ~d.offers.ok THEN acc.price
                    ELSE FloatOrNone(d.offers),
          image |-> HtmlLdImage(acc, d)]

\* _scrape_mercadolibre_html: the JSON-LD loop runs over every script
RECURSIVE HtmlScripts(_, _)
HtmlScripts(acc, scripts) ==
    IF scripts = <<>> THEN acc
    ELSE HtmlScripts(HtmlLd(acc, Head(scripts)), Tail(scripts))

\* _scrape_mercadolibre_html_by_url: the one pass of the JSON-LD loop that
\* finds a Product (the loop breaks after it)
ByUrlLd(acc, d) ==
    [name |-> NameOr(acc.name, d.name),
     price |-> IF d.offers.kind = "dict" /\ d.offers.ok THEN FloatOrNone(d.offers)
               ELSE acc.price,
     image |-> IF TruthyImage(acc.image) THEN acc.image
               ELSE IF d.image.kind \in {"str", "list"} THEN d.image.url
               ELSE acc.image]

\* _scrape_mercadolibre_html_by_url: the JSON-LD loop stops at the first Product
RECURSIVE ByUrlScripts(_, _)
ByUrlScripts(acc, scripts) ==
    IF scripts = <<>> THEN acc
    ELSE IF Head(scripts).type = "Product" THEN ByUrlLd(acc, Head(scripts))
    ELSE ByUrlScripts(acc, Tail(scripts))

\* both tiers: the gallery is read when no image was found, and the return
\* statement fills in the placeholder name and normalizes the image
WithGallery(acc, pg) ==
    [name |-> NameOr(acc.name, Placeholder),
     price |-> acc.price,
     image |-> NormalizeImageUrl(IF TruthyImage(acc.image) THEN acc.image
                                 ELSE GalleryImage(pg.gallery))]

\* what _scrape_mercadolibre_html extracts from a fetched page
HtmlExtract(pg) == WithGallery(HtmlScripts(MetaTags(pg), pg.scripts), pg)

\* what _scrape_mercadolibre_html_by_url extracts from a fetched page
ByUrlExtract(pg) == WithGallery(ByUrlScripts(MetaTags(pg), pg.scripts), pg)

NoPage == [ogTitle |-> NoName, ogImage |-> NoImage, twImage |-> NoImage,
           scripts |-> <<>>, gallery |-> <<>>]
NoExtract == [name |-> Pending, price |-> NoPrice, image |-> NoImage]

\* no page handed to the page-scrape tiers
PageAtRest ==
    /\ page = NoPage
    /\ htmlOut = NoExtract
    /\ byUrlOut = NoExtract

\* both tiers read the same fetched page
ExtractPage ==
    /\ htmlOut = NoExtract
    /\ htmlOut' = HtmlExtract(page)
    /\ byUrlOut' = ByUrlExtract(page)
    /\ UNCHANGED <<page, notPage>>

\* the name _scrape_mercadolibre_html / _by_url take from a fetched page:
\* og:title, then the JSON-LD Product name, then the placeholder
PageName(body) ==
    LET og == body.ogTitle
        ld == IF Truthy(og) THEN og ELSE body.ldName
    IN IF Truthy(ld) THEN ld ELSE Placeholder

\* the image the two tiers take from such a page: og:image, normalized
PageImage(body) == NormalizeImageUrl(body.ogImage)

\* _scrape_mercadolibre_html(item_id) begins: the item page is requested
ItemPage(r, ctx) ==
    BeginRequestGet(r, ctx, ArticleUrl(r.url.item), FALSE, NoToken, PageRetries)

\* a faulty ScrapeProductApi: the API is asked without a credential too
ScrapeProductApi_NoGuard(r, tok) ==
    BeginRequestGet(r, "api_item", ApiItemUrl(r.url.item), TRUE, tok, ApiRetries)

\* scrape_product_api(item_id) up to its first request
ScrapeProductApi(r, tok) ==
    IF tok = NoToken THEN ItemPage(r, "html_direct")
    ELSE BeginRequestGet(r, "api_item", ApiItemUrl(r.url.item), TRUE, tok, ApiRetries)

\* a faulty ScrapeProductBegin: the original URL is fetched whatever it holds
ScrapeProductBegin_AlwaysRaw(r, tok) ==
    IF ~r.url.ml THEN Done(r, ReturnsNone)
    ELSE BeginRequestGet(r, "by_url", RawUrl(r.url), FALSE, NoToken, PageRetries)

\* scrape_product(url) up to its first request
ScrapeProductBegin(r, tok) ==
    IF ~r.url.ml THEN Done(r, ReturnsNone)
    ELSE IF r.url.item # NoItem THEN ScrapeProductApi(r, tok)
    ELSE BeginRequestGet(r, "by_url", RawUrl(r.url), FALSE, NoToken, PageRetries)

ScrapeProduct(t, u) ==
    /\ th[t].pc = "idle"
    /\ th' = [th EXCEPT ![t] =
                 ScrapeProductBegin([IdleThread EXCEPT !.op = "product", !.url = u],
                                    accessToken)]
    /\ UNCHANGED <<creds, config, server, notHttp>>

\* a faulty EnrichName: strict mode does not stop the enrichment
EnrichName_IgnoreStrict(title, strict) == NameNeedsHtml(title)

\* scrape_product_api's condition for asking the item page for a name:
\* (name missing or a placeholder) and (not self.strict_api)
EnrichName(title, strict) == NameNeedsHtml(title) /\ ~strict

\* scrape_product_api after _request_get(api url) returned or raised
ApiItemCont(r, strict, jsonCaught) ==
    CASE r.rgOut = "propagate" -> Done(r, Raised(r.lastExc))
      [] r.rgOut = "raise" -> ItemPage(r, "html_fallback")
      [] OTHER ->
           LET body == r.resp.body IN
           CASE body.kind = "notjson" ->
                  IF jsonCaught THEN ItemPage(r, "html_fallback")
                  ELSE Done(r, Raised([type |-> "ValueError"]))
             [] body.kind = "notobj" -> Done(r, Raised([type |-> "AttributeError"]))
             [] OTHER ->
                  IF EnrichName(body.title, strict)
                  THEN ItemPage([r EXCEPT !.apiName = body.title, !.data = body],
                                "html_enrich")
                  ELSE Done([r EXCEPT !.apiName = body.title, !.data = body],
                            Snapshot(IF Truthy(body.title) THEN body.title
                                     ELSE Placeholder, "api",
                                     NormalizeImageUrl(body.thumbnail), body.price))

ApiItemReturn(t) ==
    /\ th[t].pc = "rg_ret" /\ th[t].ctx = "api_item"
    /\ \E jsonCaught \in JsonErrorIsRequestException :
         /\ (th[t].rgOut = "return" /\ th[t].resp.body.kind = "notjson") \/ jsonCaught
         /\ th' = [th EXCEPT ![t] = ApiItemCont(th[t], strictApi, jsonCaught)]
    /\ UNCHANGED <<creds, config, server, notHttp>>

\* a faulty HtmlCont: the enrichment takes the page's image along with its name
HtmlCont_PageImage(r) ==
    LET name == IF r.rgOut = "return" THEN PageName(r.resp.body) ELSE Placeholder
        image == IF r.rgOut = "return" THEN PageImage(r.resp.body) ELSE NoImage
    IN IF r.ctx = "html_enrich"
       THEN Done(r, Snapshot(name, "api", image, r.data.price))
       ELSE Done(r, Snapshot(name, "item_page", image, NoPrice))

\* _scrape_mercadolibre_html after its _request_get returned or raised, and the
\* caller's use of the snapshot
HtmlCont(r) ==
    LET name == IF r.rgOut = "return" THEN PageName(r.resp.body) ELSE Placeholder
        image == IF r.rgOut = "return" THEN PageImage(r.resp.body) ELSE NoImage
    IN IF r.ctx = "html_enrich"
       THEN Done(r, Snapshot(IF Truthy(name) THEN name
                             ELSE IF Truthy(r.apiName) THEN r.apiName
                             ELSE Placeholder, "api",
                             NormalizeImageUrl(r.data.thumbnail), r.data.price))
       ELSE Done(r, Snapshot(name, "item_page", image, NoPrice))

HtmlReturn(t) ==
    /\ th[t].pc = "rg_ret"
    /\ th[t].ctx \in {"html_direct", "html_fallback", "html_enrich"}
    /\ th' = [th EXCEPT ![t] = HtmlCont(th[t])]
    /\ UNCHANGED <<creds, config, server, notHttp>>

\* _scrape_mercadolibre_html_by_url after its _request_get returned or raised
ByUrlCont(r) ==
    Done(r, Snapshot(IF r.rgOut = "return" THEN PageName(r.resp.body)
                     ELSE Placeholder, "raw",
                     IF r.rgOut = "return" THEN PageImage(r.resp.body) ELSE NoImage,
                     NoPrice))

ByUrlReturn(t) ==
    /\ th[t].pc = "rg_ret" /\ th[t].ctx = "by_url"
    /\ th' = [th EXCEPT ![t] = ByUrlCont(th[t])]
    /\ UNCHANGED <<creds, config, server, notHttp>>

\* _scrape_mercadolibre_reviews(item_id) begins
ReviewsPage(r, ctx, u) == BeginRequestGet(r, ctx, u, FALSE, NoToken, PageRetries)

\* scrape_reviews(url) -> scrape_reviews_api(item_id) up to the first request
ScrapeReviewsBegin(r, tok) ==
    IF ~r.url.ml THEN Done(r, ReviewList(0, "none"))
    ELSE IF r.url.item = NoItem
         THEN Done([r EXCEPT !.logged = [event |-> "no_item_id"]], ReviewList(0, "none"))
    ELSE IF tok = NoToken THEN ReviewsPage(r, "rev_direct", ReviewsArticleUrl(r.url.item))
    ELSE BeginRequestGet(r, "api_reviews", ApiReviewsUrl(r.url.item), TRUE, tok,
                         ApiRetries)

ScrapeReviews(t, u) ==
    /\ th[t].pc = "idle"
    /\ th' = [th EXCEPT ![t] =
                 ScrapeReviewsBegin([IdleThread EXCEPT !.op = "reviews", !.url = u],
                                    accessToken)]
    /\ UNCHANGED <<creds, config, server, notHttp>>

\* scrape_reviews_api after _request_get(api url) returned or raised
ApiReviewsCont(r, jsonCaught) ==
    CASE r.rgOut = "propagate" -> Done(r, Raised(r.lastExc))
      [] r.rgOut = "raise" ->
           ReviewsPage(r, "rev_fallback", ArticleUrlOfUrl(r.url.item))
      [] OTHER ->
           LET body == r.resp.body IN
           CASE body.kind = "notjson" ->
                  IF jsonCaught
                  THEN ReviewsPage(r, "rev_fallback", ArticleUrlOfUrl(r.url.item))
                  ELSE Done(r, Raised([type |-> "ValueError"]))
             [] body.kind = "notobj" -> Done(r, Raised([type |-> "AttributeError"]))
             [] OTHER ->
                  IF body.n > 0 /\ body.reviewerNull
                  THEN Done(r, Raised([type |-> "AttributeError"]))
                  ELSE Done(r, ReviewList(body.n, "api"))

ApiReviewsReturn(t) ==
    /\ th[t].pc = "rg_ret" /\ th[t].ctx = "api_reviews"
    /\ \E jsonCaught \in JsonErrorIsRequestException :
         /\ (th[t].rgOut = "return" /\ th[t].resp.body.kind = "notjson") \/ jsonCaught
         /\ th' = [th EXCEPT ![t] = ApiReviewsCont(th[t], jsonCaught)]
    /\ UNCHANGED <<creds, config, server, notHttp>>

\* a faulty ReviewsPageCont: a failed fetch or parse is raised to the caller
ReviewsPageCont_Raises(r) ==
    IF r.rgOut = "return" /\ r.resp.body.parses
    THEN Done(r, ReviewList(r.resp.body.nReviews, "item_page"))
    ELSE Done(r, Raised([type |-> "Exception"]))

\* _scrape_mercadolibre_reviews after its _request_get returned or raised
ReviewsPageCont(r) ==
    Done(r, ReviewList(IF r.rgOut = "return" /\ r.resp.body.parses
                       THEN r.resp.body.nReviews ELSE 0,
                       "item_page"))

ReviewsPageReturn(t) ==
    /\ th[t].pc = "rg_ret" /\ th[t].ctx \in {"rev_direct", "rev_fallback"}
    /\ th' = [th EXCEPT ![t] = ReviewsPageCont(th[t])]
    /\ UNCHANGED <<creds, config, server, notHttp>>

\* the caller has the result; the thread is free for the next call
Finish(t) ==
    /\ th[t].pc = "done"
    /\ th' = [th EXCEPT ![t] = IdleThread]
    /\ UNCHANGED <<creds, config, server, notHttp>>





\* no request to a guarded endpoint answered yet
NoRequest == [route |-> "none", status |-> 0, recorded |-> FALSE]

GuardAtRest == lastReq = NoRequest

\* no keyword extraction made yet
KeywordsAtRest ==
    /\ hashOrder = <<>>
    /\ kwProc = 1
    /\ kwOut = <<>>

\* no callback request answered yet
NoCallback == [state |-> NoState, status |-> 0, posted |-> FALSE, configured |-> FALSE,
               at |-> 0, pre |-> [s \in States |-> NoEntry]]

CallbackAtRest ==
    /\ pkPosts = [s \in States |-> <<>>]
    /\ lastCb = NoCallback

\* a request thread outside _store_pkce_state and _pop_pkce_verifier
IdleHandshake == [pc |-> "idle", state |-> NoState, item |-> NoEntry, out |-> Absent]

\* no request inside the PKCE store functions, no verifier returned yet
PkceConcAtRest ==
    /\ pkTh = [t \in Threads |-> IdleHandshake]
    /\ pkGot = [s \in States |-> <<>>]

\* a request thread outside rate_limit
IdleCaller == [pc |-> "idle", key |-> NoKey, now |-> 0, out |-> "none"]

\* no request inside rate_limit
RateConcAtRest == rlTh = [t \in Threads |-> IdleCaller]

\* ------------------------------------------------------- specifications
\* the rate limiter of a process that has served no guarded request
RateAtRest ==
    /\ RATE_STATE = [k \in Keys |-> <<>>]
    /\ rlAdmitted = [k \in Keys |-> <<>>]
    /\ lastCall = NoCall
    /\ rlDropped = FALSE

\* the Product row before the analysis, and the history before any call
NoProductInfo == [result |-> NoResult, data |-> NoBody]
NotFetched == [scheme |-> "<not fetched>", rest |-> ""]
StoredProduct == [name |-> "Stored Name", image_url |-> NoImage, price |-> NoPrice]

\* no analysis running
PipelineAtRest ==
    /\ plPc = "idle"
    /\ plUrl = NoUrl
    /\ product = StoredProduct
    /\ dbReviews = <<>>
    /\ analysis = NoSummary
    /\ plErr = NoExc
    /\ plProduct = NoProductInfo
    /\ plImage = NotFetched

\* no analysis completed yet
RerunAtRest == plRuns = <<>>

\* no item page asked for
ArticleAtRest ==
    /\ artItem = Text("", <<>>)
    /\ artVia = "none"
    /\ artUrl = [tld |-> "", path |-> <<>>]

\* no item-id extraction in progress
ExtractAtRest ==
    /\ exUrl = NoExUrl
    /\ exId = NoItem

\* the sentiment analyzer before any call
SentimentAtRest ==
    /\ reviews = <<>>
    /\ sentiments = <<>>
    /\ summary = NoSummary

\* the PKCE store of a process that serves no handshake
PkceAtRest ==
    /\ redirectUri = TRUE
    /\ PKCE_STORE = [s \in States |-> NoEntry]
    /\ now = 0
    /\ pkIssued = [s \in States |-> NoEntry]
    /\ pkPops = [s \in States |-> 0]
    /\ lastPop = NoPop

Init ==
    /\ RerunAtRest
    /\ GuardAtRest
    /\ KeywordsAtRest
    /\ CallbackAtRest
    /\ PkceConcAtRest
    /\ RateConcAtRest
    /\ ArticleAtRest
    /\ PipelineAtRest
    /\ PageAtRest
    /\ ExtractAtRest
    /\ SentimentAtRest
    /\ PkceAtRest
    /\ RateAtRest
    /\ th = [t \in Threads |-> IdleThread]
    /\ accessToken \in {NoToken, InitToken}
    /\ envAccess = accessToken
    /\ envRefresh \in {NoToken, InitToken}
    /\ clientId \in BOOLEAN
    /\ clientSecret \in BOOLEAN
    /\ strictApi \in BOOLEAN
    /\ issued = 0
    /\ exchanged = {}
    /\ lastIssued = [access |-> accessToken, refresh |-> envRefresh]
    /\ raceSeen = FALSE

\* what the upstream may answer to a GET of u: anything
AnyAnswer(u) == {TransportError} \cup Responses(u)

\* one worker serving scrape_product / scrape_reviews calls one after another
Next ==
    \/ \E u \in InputUrls : ScrapeProduct(1, u)
    \/ \E u \in InputUrls : ScrapeReviews(1, u)
    \/ RgGet(1, AnyAnswer(th[1].rgUrl))
    \/ RfRead(1)
    \/ RfPost(1, TokenAnswers)
    \/ RfWriteAccess(1)
    \/ RfWriteRefresh(1)
    \/ RgReget(1, AnyAnswer(th[1].rgUrl))
    \/ ApiItemReturn(1)
    \/ HtmlReturn(1)
    \/ ByUrlReturn(1)
    \/ ApiReviewsReturn(1)
    \/ ReviewsPageReturn(1)
    \/ Finish(1)

Spec == Init /\ [][Next]_vars

\* ------------------------------------------- routes/meli_oauth.py meli_refresh
HttpResult(status) == [kind |-> "http", status |-> status]

\* POST /meli/refresh up to its token request: the configuration check, then
\* rt = refresh_token or os.getenv("MERCADO_LIBRE_REFRESH_TOKEN")
MeliRefreshBegin(r, param, cid, csec, envRt, done) ==
    LET rt == IF param # NoToken THEN param ELSE envRt IN
    IF ~(cid /\ csec) THEN Done(r, HttpResult(500))
    ELSE IF rt = NoToken THEN Done(r, HttpResult(400))
    ELSE [r EXCEPT !.pc = "mr_post", !.rt = rt, !.hRtExAtRead = rt \in done]

MeliRefresh(t, param) ==
    /\ th[t].pc = "idle"
    /\ th' = [th EXCEPT ![t] =
                 MeliRefreshBegin([IdleThread EXCEPT !.op = "meli_refresh"], param,
                                  clientId, clientSecret, envRefresh, exchanged)]
    /\ UNCHANGED <<creds, config, server, notHttp>>

\* requests.post(TOKEN_URL, ...) answered by ans, up to token = resp.json()
MeliRefreshPosted(r, ans, grant) ==
    CASE ans.kind = "transport" -> Done(LeaveRefresh(r), HttpResult(502))
      [] ans.kind = "status_err" -> Done(LeaveRefresh(r), HttpResult(400))
      [] ans.kind = "notjson" -> Done(LeaveRefresh(r), Raised(JsonError))
      [] ans.kind = "notobj" -> Done(LeaveRefresh(r), Raised([type |-> "AttributeError"]))
      [] OTHER -> [r EXCEPT !.pc = "mr_wacc", !.tokResp = grant]

MrPost(t, answers) ==
    /\ th[t].pc = "mr_post"
    /\ \E ans \in answers :
         /\ (ans.kind = "obj") => (issued < MaxTokens)
         /\ th' = [th EXCEPT ![t] =
                     MeliRefreshPosted([th[t] EXCEPT !.hTokenPosted = TRUE], ans,
                                       Grant(ans))]
         /\ ServerExchange(th[t].rt, th[t].hRtExAtRead, ans)
    /\ UNCHANGED <<creds, config, notHttp>>

\* os.environ["MERCADO_LIBRE_ACCESS_TOKEN"] = access_token
MrWriteAccess(t) ==
    /\ th[t].pc = "mr_wacc"
    /\ envAccess' = NewAccess(envAccess, th[t].tokResp)
    /\ th' = [th EXCEPT ![t].pc = "mr_wref"]
    /\ UNCHANGED <<accessToken, envRefresh, config, server, notHttp>>

\* os.environ["MERCADO_LIBRE_REFRESH_TOKEN"] = new_refresh; return
MrWriteRefresh(t) ==
    /\ th[t].pc = "mr_wref"
    /\ envRefresh' = NewRefresh(envRefresh, th[t].tokResp)
    /\ th' = [th EXCEPT ![t] = Done(LeaveRefresh(th[t]), HttpResult(200))]
    /\ UNCHANGED <<accessToken, envAccess, config, server, notHttp>>

\* scrape_product_api's call self._request_get(url, headers=headers, timeout=15,
\* retries=2) with the bearer token of the moment
CallRequestGet(t) ==
    /\ th[t].pc = "idle"
    /\ accessToken # NoToken
    /\ th' = [th EXCEPT ![t] =
                 BeginRequestGet([IdleThread EXCEPT !.op = "request_get"], "direct",
                                 ApiItemUrl(ItemId), TRUE, accessToken, ApiRetries)]
    /\ UNCHANGED <<creds, config, server, notHttp>>

\* that _request_get call is over
RequestGetReturns(t) ==
    /\ th[t].pc = "rg_ret" /\ th[t].ctx = "direct"
    /\ th' = [th EXCEPT ![t] = IdleThread]
    /\ UNCHANGED <<creds, config, server, notHttp>>

\* two request threads of the one process, every credential configured
InitConc ==
    /\ RerunAtRest
    /\ GuardAtRest
    /\ KeywordsAtRest
    /\ CallbackAtRest
    /\ PkceConcAtRest
    /\ RateConcAtRest
    /\ ArticleAtRest
    /\ PipelineAtRest
    /\ PageAtRest
    /\ ExtractAtRest
    /\ SentimentAtRest
    /\ PkceAtRest
    /\ RateAtRest
    /\ th = [t \in Threads |-> IdleThread]
    /\ accessToken = InitToken
    /\ envAccess = InitToken
    /\ envRefresh = InitToken
    /\ clientId = TRUE
    /\ clientSecret = TRUE
    /\ strictApi \in BOOLEAN
    /\ issued = 0
    /\ exchanged = {}
    /\ lastIssued = [access |-> InitToken, refresh |-> InitToken]
    /\ raceSeen = FALSE

\* the upstream of the concurrent runs: the API answers 401 or serves the
\* item, the token endpoint refuses or issues a full token pair
ExpiringApi(u) ==
    {[status |-> 401, body |-> NoBody],
     [status |-> 200, body |-> [kind |-> "obj", title |-> "API Title"]]}
FullGrants ==
    {[kind |-> "status_err"], [kind |-> "obj", hasAccess |-> TRUE, hasRefresh |-> TRUE]}

NextConc ==
    \E t \in Threads :
        \/ CallRequestGet(t)
        \/ RgGet(t, ExpiringApi(th[t].rgUrl))
        \/ RfRead(t)
        \/ RfPost(t, FullGrants)
        \/ RfWriteAccess(t)
        \/ RfWriteRefresh(t)
        \/ RgReget(t, ExpiringApi(th[t].rgUrl))
        \/ RequestGetReturns(t)
        \/ \E param \in {NoToken} : MeliRefresh(t, param)
        \/ MrPost(t, FullGrants)
        \/ MrWriteAccess(t)
        \/ MrWriteRefresh(t)
        \/ Finish(t)

SpecConc == InitConc /\ [][NextConc]_vars

\* ------------------------------------------ routes/meli_oauth.py PKCE store
\* a faulty PopStore: the entry is read and left in the store
PopStore_Keep(store, state) == store

\* PKCE_STORE.pop(state, None): the store without the entry
PopStore(store, state) ==
    [s \in DOMAIN store |-> IF s = state THEN NoEntry ELSE store[s]]

\* _store_pkce_state(state, verifier)
StorePkceState(store, state, verifier, t) ==
    [store EXCEPT ![state] = [verifier |-> verifier, ts |-> t]]

\* a faulty Expired: an entry aged exactly the TTL is refused
Expired_AtTtl(age) == age >= PKCE_TTL_SECONDS

\* time.time() - item["ts"] > PKCE_TTL_SECONDS
Expired(age) == age > PKCE_TTL_SECONDS

\* what _pop_pkce_verifier(state) returns at time t
PopPkceVerifier(store, state, t) ==
    LET item == IF state \in DOMAIN store THEN store[state] ELSE NoEntry IN
    IF item = NoEntry THEN Absent
    ELSE IF Expired(t - item.ts) THEN Absent
    ELSE item.verifier

\* GET /meli/login: a fresh random state and verifier are stored
MeliLogin(s, v) ==
    /\ pkIssued[s] = NoEntry
    /\ IF clientId /\ redirectUri
       THEN /\ PKCE_STORE' = StorePkceState(PKCE_STORE, s, v, now)
            /\ pkIssued' = [pkIssued EXCEPT ![s] = [verifier |-> v, ts |-> now]]
            /\ pkPops' = [pkPops EXCEPT ![s] = 0]
            /\ lastPop' = NoPop
       ELSE UNCHANGED <<PKCE_STORE, pkIssued, pkPops, lastPop>>
    /\ UNCHANGED <<now, redirectUri, clientId, clientSecret, notPkce>>

\* the callback's answer once the state is given: 400 without a verifier,
\* else the outcome of the code exchange at the token endpoint
CallbackStatus(verifier, ok) ==
    IF verifier = Absent THEN 400 ELSE IF ok THEN 200 ELSE 502

\* a faulty MeliCallback: the entry is put back when the token request failed
MeliCallback_Restore(s, ok) ==
    /\ LET configured == clientId /\ clientSecret /\ redirectUri
           verifier == IF s = NoState THEN Absent ELSE PopPkceVerifier(PKCE_STORE, s, now)
           status == IF ~configured THEN 500
                     ELSE IF s = NoState THEN 400
                     ELSE CallbackStatus(verifier, ok)
       IN /\ IF configured /\ s # NoState
             THEN /\ PKCE_STORE' = IF verifier # Absent /\ ~ok THEN PKCE_STORE
                                   ELSE PopStore(PKCE_STORE, s)
                  /\ pkPops' = [pkPops EXCEPT ![s] = IF @ < 2 THEN @ + 1 ELSE @]
                  /\ lastPop' = [state |-> s,
                                 result |-> verifier,
                                 nth |-> pkPops'[s],
                                 age |-> now - pkIssued[s].ts,
                                 pre |-> PKCE_STORE,
                                 status |-> status]
                  /\ pkPosts' = IF verifier = Absent \/ Len(pkPosts[s]) >= MaxPosts
                                THEN pkPosts
                                ELSE [pkPosts EXCEPT ![s] = Append(@, ok)]
             ELSE UNCHANGED <<PKCE_STORE, pkPops, lastPop, pkPosts>>
          /\ lastCb' = [state |-> s, status |-> status,
                        posted |-> (configured /\ verifier # Absent),
                        configured |-> configured, at |-> now, pre |-> PKCE_STORE]
    /\ UNCHANGED <<now, pkIssued, redirectUri, clientId, clientSecret, notCallback>>

\* GET /meli/callback?code=..&state=s: 500 without the client configuration,
\* 400 without a state; else the verifier is consumed, 400 if there is none,
\* and the code is exchanged at the token endpoint, which answers ok or not
MeliCallback(s, ok) ==
    /\ LET configured == clientId /\ clientSecret /\ redirectUri
           verifier == IF s = NoState THEN Absent ELSE PopPkceVerifier(PKCE_STORE, s, now)
           status == IF ~configured THEN 500
                     ELSE IF s = NoState THEN 400
                     ELSE CallbackStatus(verifier, ok)
       IN /\ IF configured /\ s # NoState
             THEN /\ PKCE_STORE' = PopStore(PKCE_STORE, s)
                  /\ pkPops' = [pkPops EXCEPT ![s] = IF @ < 2 THEN @ + 1 ELSE @]
                  /\ lastPop' = [state |-> s,
                                 result |-> verifier,
                                 nth |-> pkPops'[s],
                                 age |-> now - pkIssued[s].ts,
                                 pre |-> PKCE_STORE,
                                 status |-> status]
                  /\ pkPosts' = IF verifier = Absent \/ Len(pkPosts[s]) >= MaxPosts
                                THEN pkPosts
                                ELSE [pkPosts EXCEPT ![s] = Append(@, ok)]
             ELSE UNCHANGED <<PKCE_STORE, pkPops, lastPop, pkPosts>>
          /\ lastCb' = [state |-> s, status |-> status,
                        posted |-> (configured /\ verifier # Absent),
                        configured |-> configured, at |-> now, pre |-> PKCE_STORE]
    /\ UNCHANGED <<now, pkIssued, redirectUri, clientId, clientSecret, notCallback>>

\* time passes
Tick ==
    /\ now < MaxClock
    /\ now' = now + 1
    /\ UNCHANGED <<redirectUri, PKCE_STORE, pkIssued, pkPops, lastPop,
                   clientId, clientSecret, notPkce>>

InitPkce ==
    /\ RerunAtRest
    /\ GuardAtRest
    /\ KeywordsAtRest
    /\ CallbackAtRest
    /\ PkceConcAtRest
    /\ RateConcAtRest
    /\ ArticleAtRest
    /\ PipelineAtRest
    /\ PageAtRest
    /\ ExtractAtRest
    /\ SentimentAtRest
    /\ RateAtRest
    /\ redirectUri \in BOOLEAN
    /\ PKCE_STORE = [s \in States |-> NoEntry]
    /\ now = 0
    /\ pkIssued = [s \in States |-> NoEntry]
    /\ pkPops = [s \in States |-> 0]
    /\ lastPop = NoPop
    /\ th = [t \in Threads |-> IdleThread]
    /\ accessToken = NoToken
    /\ envAccess = NoToken
    /\ envRefresh = NoToken
    /\ clientId \in BOOLEAN
    /\ clientSecret \in BOOLEAN
    /\ strictApi = FALSE
    /\ issued = 0
    /\ exchanged = {}
    /\ lastIssued = [access |-> NoToken, refresh |-> NoToken]
    /\ raceSeen = FALSE

NextPkce ==
    \/ \E s \in States, v \in Verifiers : MeliLogin(s, v)
    \/ \E s \in States \cup {NoState}, ok \in BOOLEAN : MeliCallback(s, ok)
    \/ Tick

SpecPkce == InitPkce /\ [][NextPkce]_vars


\* ------------------------------------------------- utils/rate_limit.py
\* the acquisition service with no call in progress
HttpAtRest ==
    /\ th = [t \in Threads |-> IdleThread]
    /\ accessToken = NoToken
    /\ envAccess = NoToken
    /\ envRefresh = NoToken
    /\ clientId = TRUE
    /\ clientSecret = TRUE
    /\ strictApi = FALSE
    /\ issued = 0
    /\ exchanged = {}
    /\ lastIssued = [access |-> NoToken, refresh |-> NoToken]
    /\ raceSeen = FALSE

\* while q and (now - q[0]) > window_seconds: q.popleft()
RECURSIVE Purge(_, _)
Purge(q, t) ==
    IF q # <<>> /\ (t - Head(q)) > WindowSeconds THEN Purge(Tail(q), t) ELSE q

\* a faulty LimitReached: no call is ever rejected
LimitReached_Never(q, max_per_minute) == FALSE

\* a faulty LimitReached: one call too many is let in
LimitReached_Late(q, max_per_minute) == Len(q) > max_per_minute

\* len(q) >= max_per_minute
LimitReached(q, max_per_minute) == Len(q) >= max_per_minute

\* q.append(now) on a deque(maxlen=QueueMaxLen)
DequeAppend(q, t) ==
    IF Len(q) >= QueueMaxLen THEN Append(Tail(q), t) ELSE Append(q, t)

\* the admitted timestamps in hist that are no older than the window at time t
InWindow(hist, t) == SelectSeq(hist, LAMBDA x : t - x <= WindowSeconds)

\* rate_limit(request, max_per_minute) for the request's key at the current time
RateLimitStep(k, max_per_minute) ==
    LET q == Purge(RATE_STATE[k], now)
        reject == LimitReached(q, max_per_minute)
    IN /\ RATE_STATE' = [RATE_STATE EXCEPT ![k] = IF reject THEN q ELSE DequeAppend(q, now)]
       /\ rlAdmitted' = [rlAdmitted EXCEPT ![k] = IF reject THEN @ ELSE Append(@, now)]
       /\ rlDropped' = (rlDropped \/ (~reject /\ Len(q) >= QueueMaxLen))
       /\ lastCall' = [key |-> k, at |-> now, admitted |-> ~reject,
                       inWindow |-> Len(InWindow(rlAdmitted[k], now))]

RateLimit(k, max_per_minute) ==
    /\ RateLimitStep(k, max_per_minute)
    /\ UNCHANGED <<now, notRate>>

InitRate ==
    /\ RerunAtRest
    /\ GuardAtRest
    /\ KeywordsAtRest
    /\ CallbackAtRest
    /\ PkceConcAtRest
    /\ RateConcAtRest
    /\ ArticleAtRest
    /\ PipelineAtRest
    /\ PageAtRest
    /\ ExtractAtRest
    /\ SentimentAtRest
    /\ HttpAtRest
    /\ PkceAtRest
    /\ RateAtRest

\* guarded requests arrive for any key, at the default limit, as time passes
NextRate ==
    \/ \E k \in Keys : RateLimit(k, MaxPerMinute)
    \/ Tick

SpecRate == InitRate /\ [][NextRate]_vars



\* ------------- the guards of POST /analyze and POST /reviews/bulk
\* require_internal_api_key(x_api_key, authorization) with INTERNAL_API_KEY =
\* required: 403, or 0 when the request goes on
RequireInternalApiKey(required, x_api_key, authorization) ==
    IF required = Absent THEN 0
    ELSE LET provided == IF x_api_key # Absent THEN x_api_key
                         ELSE IF authorization = "ApiKey key" THEN "key"
                         ELSE Absent
         IN IF provided = Absent \/ provided # required THEN 403 ELSE 0

\* the headers a request can carry, and the configured key
ApiKeys == {Absent, "key", "wrong"}
AuthorizationHeaders == {Absent, "ApiKey key", "Bearer key"}

\* the dependencies of a route in the order FastAPI runs them: those of the
\* decorator in list order, those of the parameters in parameter order
Guards(route) ==
    IF route = "/analyze" THEN <<"require_internal_api_key", "rate_limit">>
    ELSE <<"rate_limit", "require_internal_api_key">>

GuardedRoutes == {"/analyze", "/reviews/bulk"}

\* _key_for_request(request) for the requests of one client
KeyForRequest(route) == IF route = "/analyze" THEN "k1" ELSE "k2"

\* the max_per_minute parameter of the dependency: FastAPI binds it from the
\* query string, the default applies without it
NoParam == -1
QueryValues == {NoParam, 1, MaxPerMinute + 1}
MaxPerMinuteOf(query) == IF query = NoParam THEN MaxPerMinute ELSE query

\* a request to a guarded route: the guards run in order, the first exception
\* answers the request
GuardedRequest(route, required, x_api_key, authorization, query) ==
    LET k == KeyForRequest(route)
        max_per_minute == MaxPerMinuteOf(query)
        gate == RequireInternalApiKey(required, x_api_key, authorization)
        limited == LimitReached(Purge(RATE_STATE[k], now), max_per_minute)
    IN /\ Len(rlAdmitted[k]) < MaxCalls
       /\ IF Guards(route)[1] = "rate_limit"
          THEN /\ RateLimitStep(k, max_per_minute)
               /\ lastReq' = [route |-> route,
                              status |-> IF limited THEN 429 ELSE IF gate # 0 THEN gate ELSE 200,
                              recorded |-> ~limited]
          ELSE IF gate # 0
               THEN /\ UNCHANGED rate
                    /\ lastReq' = [route |-> route, status |-> gate, recorded |-> FALSE]
               ELSE /\ RateLimitStep(k, max_per_minute)
                    /\ lastReq' = [route |-> route,
                                   status |-> IF limited THEN 429 ELSE 200,
                                   recorded |-> ~limited]
       /\ UNCHANGED <<now, notGuard, rateConc>>

InitGuard ==
    /\ RerunAtRest
    /\ GuardAtRest
    /\ KeywordsAtRest
    /\ CallbackAtRest
    /\ PkceConcAtRest
    /\ RateConcAtRest
    /\ ArticleAtRest
    /\ PipelineAtRest
    /\ PageAtRest
    /\ ExtractAtRest
    /\ SentimentAtRest
    /\ HttpAtRest
    /\ PkceAtRest
    /\ RateAtRest

NextGuard ==
    \/ \E route \in GuardedRoutes, required \in {Absent, "key"}, x_api_key \in ApiKeys,
          authorization \in AuthorizationHeaders, query \in QueryValues :
          GuardedRequest(route, required, x_api_key, authorization, query)
    \/ Tick

SpecGuard == InitGuard /\ [][NextGuard]_vars

\* ------------------------- utils/rate_limit.py run by concurrent requests
\* rate_limit is a synchronous dependency: every request runs it in a worker
\* thread, and the module holds no lock. A thread switch can fall between any
\* two operations on the deque; each single deque operation is atomic.

\* key = _key_for_request(request); now = time.time(); q = RATE_STATE[key]
RlEnter(t, k) ==
    /\ rlTh[t].pc = "idle"
    /\ Len(rlAdmitted[k]) < MaxCalls
    /\ rlTh' = [rlTh EXCEPT ![t] = [pc |-> "while", key |-> k, now |-> now, out |-> "none"]]
    /\ UNCHANGED <<now, rate, notRateConc>>

\* 'while q': the loop goes on to look at q[0] or ends
RlWhile(t) ==
    /\ rlTh[t].pc = "while"
    /\ rlTh' = [rlTh EXCEPT ![t].pc =
                   IF RATE_STATE[rlTh[t].key] # <<>> THEN "head" ELSE "len"]
    /\ UNCHANGED <<now, rate, notRateConc>>

\* '(now - q[0]) > window_seconds': q[0] raises IndexError on an empty deque
RlHead(t) ==
    /\ rlTh[t].pc = "head"
    /\ LET q == RATE_STATE[rlTh[t].key] IN
       rlTh' = [rlTh EXCEPT ![t] =
                   IF q = <<>> THEN [@ EXCEPT !.pc = "done", !.out = "IndexError"]
                   ELSE IF (rlTh[t].now - Head(q)) > WindowSeconds
                        THEN [@ EXCEPT !.pc = "popleft"]
                        ELSE [@ EXCEPT !.pc = "len"]]
    /\ UNCHANGED <<now, rate, notRateConc>>

\* q.popleft(): IndexError on an empty deque
RlPopleft(t) ==
    /\ rlTh[t].pc = "popleft"
    /\ LET k == rlTh[t].key
           q == RATE_STATE[k]
       IN IF q = <<>>
          THEN /\ rlTh' = [rlTh EXCEPT ![t] = [@ EXCEPT !.pc = "done", !.out = "IndexError"]]
               /\ UNCHANGED RATE_STATE
          ELSE /\ rlTh' = [rlTh EXCEPT ![t].pc = "while"]
               /\ RATE_STATE' = [RATE_STATE EXCEPT ![k] = Tail(q)]
    /\ UNCHANGED <<now, rlAdmitted, lastCall, rlDropped, notRateConc>>

\* 'if len(q) >= max_per_minute: raise HTTPException(429)'
RlLen(t, max_per_minute) ==
    /\ rlTh[t].pc = "len"
    /\ rlTh' = [rlTh EXCEPT ![t] =
                   IF LimitReached(RATE_STATE[rlTh[t].key], max_per_minute)
                   THEN [@ EXCEPT !.pc = "done", !.out = "429"]
                   ELSE [@ EXCEPT !.pc = "append"]]
    /\ UNCHANGED <<now, rate, notRateConc>>

\* q.append(now): the call is admitted
RlAppend(t) ==
    /\ rlTh[t].pc = "append"
    /\ LET k == rlTh[t].key
           q == RATE_STATE[k]
       IN /\ RATE_STATE' = [RATE_STATE EXCEPT ![k] = DequeAppend(q, rlTh[t].now)]
          /\ rlAdmitted' = [rlAdmitted EXCEPT ![k] = Append(@, rlTh[t].now)]
          /\ rlDropped' = (rlDropped \/ Len(q) >= QueueMaxLen)
    /\ rlTh' = [rlTh EXCEPT ![t] = [@ EXCEPT !.pc = "done", !.out = "admitted"]]
    /\ UNCHANGED <<now, lastCall, notRateConc>>

\* the request goes on to its handler, or is answered with the error
RlLeave(t) ==
    /\ rlTh[t].pc = "done"
    /\ rlTh' = [rlTh EXCEPT ![t] = IdleCaller]
    /\ UNCHANGED <<now, rate, notRateConc>>

InitRateConc ==
    /\ RerunAtRest
    /\ GuardAtRest
    /\ KeywordsAtRest
    /\ CallbackAtRest
    /\ PkceConcAtRest
    /\ RateConcAtRest
    /\ ArticleAtRest
    /\ PipelineAtRest
    /\ PageAtRest
    /\ ExtractAtRest
    /\ SentimentAtRest
    /\ HttpAtRest
    /\ PkceAtRest
    /\ RateAtRest

\* the requests of one client to one route arrive on any thread as time passes
NextRateConc ==
    \/ \E t \in Threads : RlEnter(t, "k1")
    \/ \E t \in Threads : RlWhile(t)
    \/ \E t \in Threads : RlHead(t)
    \/ \E t \in Threads : RlPopleft(t)
    \/ \E t \in Threads : RlLen(t, MaxPerMinute)
    \/ \E t \in Threads : RlAppend(t)
    \/ \E t \in Threads : RlLeave(t)
    \/ Tick

SpecRateConc == InitRateConc /\ [][NextRateConc]_vars

\* ------------------- routes/meli_oauth.py PKCE store, concurrent requests
\* meli_login and meli_callback are synchronous handlers: each request runs in
\* a worker thread, and the module holds no lock. PKCE_STORE[state] = item and
\* PKCE_STORE.pop(state, None) are single dict operations, each atomic.

\* _store_pkce_state up to the item: {"verifier": verifier, "ts": time.time()}
PkItem(t, s, v) ==
    /\ pkTh[t].pc = "idle"
    /\ pkIssued[s] = NoEntry
    /\ \A u \in Threads : ~(pkTh[u].pc = "store" /\ pkTh[u].state = s)
    /\ pkTh' = [pkTh EXCEPT ![t] = [pc |-> "store", state |-> s,
                                    item |-> [verifier |-> v, ts |-> now], out |-> Absent]]
    /\ UNCHANGED <<now, PKCE_STORE, pkIssued, pkPops, lastPop, redirectUri, pkGot,
                   clientId, clientSecret, notPkceConc>>

\* PKCE_STORE[state] = item
PkStore(t) ==
    /\ pkTh[t].pc = "store"
    /\ LET s == pkTh[t].state
           item == pkTh[t].item
       IN /\ PKCE_STORE' = StorePkceState(PKCE_STORE, s, item.verifier, item.ts)
          /\ pkIssued' = [pkIssued EXCEPT ![s] = item]
          /\ pkPops' = [pkPops EXCEPT ![s] = 0]
    /\ pkTh' = [pkTh EXCEPT ![t] = IdleHandshake]
    /\ UNCHANGED <<now, lastPop, redirectUri, pkGot,
                   clientId, clientSecret, notPkceConc>>

\* a faulty PkPop: the entry is read with get and left in the store
PkPop_Get(t, s) ==
    /\ pkTh[t].pc = "idle"
    /\ pkTh' = [pkTh EXCEPT ![t] = [pc |-> "popped", state |-> s,
                                    item |-> PKCE_STORE[s], out |-> Absent]]
    /\ pkPops' = [pkPops EXCEPT ![s] = IF @ < 2 THEN @ + 1 ELSE @]
    /\ UNCHANGED <<now, PKCE_STORE, pkIssued, lastPop, redirectUri, pkGot,
                   clientId, clientSecret, notPkceConc>>

\* item = PKCE_STORE.pop(state, None)
PkPop(t, s) ==
    /\ pkTh[t].pc = "idle"
    /\ pkTh' = [pkTh EXCEPT ![t] = [pc |-> "popped", state |-> s,
                                    item |-> PKCE_STORE[s], out |-> Absent]]
    /\ PKCE_STORE' = PopStore(PKCE_STORE, s)
    /\ pkPops' = [pkPops EXCEPT ![s] = IF @ < 2 THEN @ + 1 ELSE @]
    /\ UNCHANGED <<now, pkIssued, lastPop, redirectUri, pkGot,
                   clientId, clientSecret, notPkceConc>>

\* the rest of _pop_pkce_verifier: None without an item or past the TTL, else
\* the item's verifier
PkReturn(t) ==
    /\ pkTh[t].pc = "popped"
    /\ LET item == pkTh[t].item
           out == IF item = NoEntry THEN Absent
                  ELSE IF Expired(now - item.ts) THEN Absent
                  ELSE item.verifier
       IN /\ pkTh' = [pkTh EXCEPT ![t] = [@ EXCEPT !.pc = "done", !.out = out]]
          /\ pkGot' = IF out = Absent THEN pkGot
                      ELSE [pkGot EXCEPT ![pkTh[t].state] = Append(@, out)]
    /\ UNCHANGED <<pkce, clientId, clientSecret, notPkceConc>>

\* the handler goes on with what the function returned
PkLeave(t) ==
    /\ pkTh[t].pc = "done"
    /\ pkTh' = [pkTh EXCEPT ![t] = IdleHandshake]
    /\ UNCHANGED <<pkce, pkGot, clientId, clientSecret, notPkceConc>>

\* time passes while requests are in progress
PkTick ==
    /\ now < MaxClock
    /\ now' = now + 1
    /\ UNCHANGED <<redirectUri, PKCE_STORE, pkIssued, pkPops, lastPop, pkceConc, clientId, clientSecret,
                   notPkceConc>>

InitPkceConc ==
    /\ RerunAtRest
    /\ GuardAtRest
    /\ KeywordsAtRest
    /\ CallbackAtRest
    /\ PkceConcAtRest
    /\ RateConcAtRest
    /\ ArticleAtRest
    /\ PipelineAtRest
    /\ PageAtRest
    /\ ExtractAtRest
    /\ SentimentAtRest
    /\ HttpAtRest
    /\ PkceAtRest
    /\ RateAtRest

\* logins store fresh states and callbacks consume any state, on any thread
NextPkceConc ==
    \/ \E t \in Threads, s \in States, v \in Verifiers : PkItem(t, s, v)
    \/ \E t \in Threads : PkStore(t)
    \/ \E t \in Threads, s \in States : PkPop(t, s)
    \/ \E t \in Threads : PkReturn(t)
    \/ \E t \in Threads : PkLeave(t)
    \/ PkTick

SpecPkceConc == InitPkceConc /\ [][NextPkceConc]_vars

\* ------------------------------------------------ Python float arithmetic
\* A float is m * 2^e with 2^(MantissaBits-1) <= m < 2^MantissaBits, or zero;
\* every operation rounds its exact result to the nearest float, ties to even.
\* Python's float has 53 significand bits; the model keeps 53 mod 4 of them
\* (the binary expansions of the fifths and thirds used here repeat with
\* period 4 and 2), so that sums and quotients round in the same direction.
MantissaBits == 9

RECURSIVE Pow2(_)
Pow2(n) == IF n = 0 THEN 1 ELSE 2 * Pow2(n - 1)

FlZero == [m |-> 0, e |-> 0]

\* num/den * 2^e with num >= den * 2^(MantissaBits-1): halve until below 2^MantissaBits
RECURSIVE ScaleDown(_, _, _)
ScaleDown(num, den, e) ==
    IF num >= den * Pow2(MantissaBits) THEN ScaleDown(num, den * 2, e + 1)
    ELSE [num |-> num, den |-> den, e |-> e]

\* num/den * 2^e with num > 0: double until at least 2^(MantissaBits-1)
RECURSIVE ScaleUp(_, _, _)
ScaleUp(num, den, e) ==
    IF num < den * Pow2(MantissaBits - 1) THEN ScaleUp(num * 2, den, e - 1)
    ELSE ScaleDown(num, den, e)

\* the float nearest to num/den * 2^e (num >= 0, den > 0)
FlRound(num, den, e) ==
    IF num = 0 THEN FlZero
    ELSE LET s == ScaleUp(num, den, e)
             q == s.num \div s.den
             r == s.num % s.den
             up == (2 * r > s.den) \/ (2 * r = s.den /\ q % 2 = 1)
             m == IF up THEN q + 1 ELSE q
         IN IF m = Pow2(MantissaBits)
            THEN [m |-> Pow2(MantissaBits - 1), e |-> s.e + 1]
            ELSE [m |-> m, e |-> s.e]

\* float(n) / float(d) for non-negative integers
FlQuot(n, d) == FlRound(n, d, 0)
FlInt(n) == FlQuot(n, 1)
FlHalf == FlQuot(1, 2)
FlOne == FlInt(1)

\* a + b
FlAdd(a, b) ==
    IF a = FlZero THEN b
    ELSE IF b = FlZero THEN a
    ELSE LET e == IF a.e < b.e THEN a.e ELSE b.e
         IN FlRound(a.m * Pow2(a.e - e) + b.m * Pow2(b.e - e), 1, e)

\* a / n for a positive integer n
FlDivInt(a, n) == FlRound(a.m, n, a.e)

\* a <= b
FlLeq(a, b) ==
    IF a = FlZero THEN TRUE
    ELSE IF b = FlZero THEN FALSE
    ELSE LET e == IF a.e < b.e THEN a.e ELSE b.e
         IN a.m * Pow2(a.e - e) <= b.m * Pow2(b.e - e)

FlMin(a, b) == IF FlLeq(a, b) THEN a ELSE b

\* a * n for a non-negative integer n
FlMulInt(a, n) == FlRound(a.m * n, 1, a.e)

\* round(a, digits) for scale = 10^digits: the nearest multiple of 1/scale
RoundDecimals(a, scale) ==
    LET num == IF a.e >= 0 THEN a.m * Pow2(a.e) * scale ELSE a.m * scale
        den == IF a.e >= 0 THEN 1 ELSE Pow2(0 - a.e)
        q == num \div den
        r == num % den
        up == (2 * r > den) \/ (2 * r = den /\ q % 2 = 1)
    IN FlQuot(IF up THEN q + 1 ELSE q, scale)

\* ------------------- utils/helpers.py and services/sentiment_analyzer.py
\* the lexicon, restricted to the vocabulary
PositiveWords == {"excellent", "quality", "great", "funciona"}
NegativeWords == {"bad", "no", "nofunciona"}

\* re.sub(r'[^\w\s.,!?-]', '', token): a token of special characters leaves
\* nothing between its two spaces
StripSpecial(tok) == IF tok = "¡¿" THEN "" ELSE tok

\* str.strip(), on a text whose empty tokens stand for doubled spaces
RECURSIVE StripLeft(_)
StripLeft(ws) == IF ws # <<>> /\ Head(ws) = "" THEN StripLeft(Tail(ws)) ELSE ws

RECURSIVE StripRight(_)
StripRight(ws) ==
    IF ws # <<>> /\ ws[Len(ws)] = "" THEN StripRight(SubSeq(ws, 1, Len(ws) - 1)) ELSE ws

\* clean_text(text)
CleanText(text) ==
    IF text = NoText \/ text = <<>> THEN <<>>
    ELSE StripRight(StripLeft([i \in DOMAIN text |-> StripSpecial(text[i])]))

\* str.lower()
Lower(tok) == IF tok = "Great" THEN "great" ELSE tok

\* .replace('no funciona', 'nofunciona'): the two words one space apart
RECURSIVE JoinNoFunciona(_)
JoinNoFunciona(ws) ==
    IF Len(ws) < 2 THEN ws
    ELSE IF ws[1] = "no" /\ ws[2] = "funciona"
         THEN <<"nofunciona">> \o JoinNoFunciona(SubSeq(ws, 3, Len(ws)))
         ELSE <<Head(ws)>> \o JoinNoFunciona(Tail(ws))

\* text.lower().replace(...).split()
SplitWords(text) ==
    SelectSeq(JoinNoFunciona([i \in DOMAIN text |-> Lower(text[i])]), LAMBDA w : w # "")

CountIn(ws, lexicon) == Len(SelectSeq(ws, LAMBDA w : w \in lexicon))

\* the literals 0.6 and 0.4
PositiveFrom == FlQuot(3, 5)
NegativeUpTo == FlQuot(2, 5)

\* calculate_sentiment_label(score)
CalculateSentimentLabel(score) ==
    IF FlLeq(PositiveFrom, score) THEN "positive"
    ELSE IF FlLeq(score, NegativeUpTo) THEN "negative"
    ELSE "neutral"

\* _fallback_sentiment(text): the score, with the two hit counts
FallbackSentiment(text) ==
    LET words == SplitWords(text)
        positive_count == CountIn(words, PositiveWords)
        negative_count == CountIn(words, NegativeWords)
        total == positive_count + negative_count
    IN [score |-> IF total = 0 THEN FlHalf ELSE FlQuot(positive_count, total),
        positive_count |-> positive_count,
        negative_count |-> negative_count]

\* float(r.get('rating', 0) or 0)
RatingOf(review) == IF review.rating = NoRating THEN 0 ELSE review.rating

\* a faulty HasRating: a rating of 0 counts as a rating
HasRating_Zero(rating) == rating >= 0

\* rating is not None and rating > 0
HasRating(rating) == rating > 0

\* max(0.0, min(1.0, float(rating) / 5.0)) for rating > 0
RatingNorm(rating) == FlMin(FlOne, FlQuot(rating, 5))

\* a faulty CombinedScore: the two signals are averaged also for an empty text
CombinedScore_AlwaysMean(text_score, text, rating) ==
    IF ~HasRating(rating) THEN text_score
    ELSE FlDivInt(FlAdd(text_score, RatingNorm(rating)), 2)

\* _analyze_single_review: the combination of the two signals
CombinedScore(text_score, text, rating) ==
    IF ~HasRating(rating) THEN text_score
    ELSE IF text_score = FlHalf /\ StripRight(StripLeft(text)) = <<>> THEN RatingNorm(rating)
    ELSE FlDivInt(FlAdd(text_score, RatingNorm(rating)), 2)

\* _analyze_single_review(text, rating), with what the text scored
AnalyzeSingleReview(text, rating) ==
    LET text_sent == FallbackSentiment(text)
        combined_score == CombinedScore(text_sent.score, text, rating)
    IN [label |-> CalculateSentimentLabel(combined_score),
        score |-> combined_score,
        text_sent |-> text_sent]

\* a faulty EmptyAnalysis: the average of nothing is 0
EmptyAnalysis_ZeroAverage ==
    [avg_sentiment |-> FlZero, sentiment_label |-> "neutral", total_reviews |-> 0,
     positive_count |-> 0, negative_count |-> 0, neutral_count |-> 0,
     keywords |-> <<>>,
     sentiment_distribution |-> [positive |-> FlZero, negative |-> FlZero, neutral |-> FlZero]]

\* _empty_analysis()
EmptyAnalysis ==
    [avg_sentiment |-> FlHalf, sentiment_label |-> "neutral", total_reviews |-> 0,
     positive_count |-> 0, negative_count |-> 0, neutral_count |-> 0,
     keywords |-> <<>>,
     sentiment_distribution |-> [positive |-> FlZero, negative |-> FlZero, neutral |-> FlZero]]

\* sum(scores)
RECURSIVE SumScores(_)
SumScores(ss) ==
    IF ss = <<>> THEN FlZero
    ELSE FlAdd(SumScores(SubSeq(ss, 1, Len(ss) - 1)), ss[Len(ss)].score)

CountLabel(ss, label) == Len(SelectSeq(ss, LAMBDA x : x.label = label))

\* a faulty NeutralCount: the negatives are not taken off
NeutralCount_NoNegatives(n, positive_count, negative_count) == n - positive_count

\* len(sentiments) - positive_count - negative_count
NeutralCount(n, positive_count, negative_count) == n - positive_count - negative_count

\* round((count / len(sentiments)) * 100, 1)
Percentage(count, n) == RoundDecimals(FlMulInt(FlQuot(count, n), 100), 10)

\* the per-review part of analyze_reviews
AnalyzeEach(batch) ==
    [i \in DOMAIN batch |->
        AnalyzeSingleReview(CleanText(batch[i].text), RatingOf(batch[i]))]

\* what analyze_reviews(batch) returns
AnalyzeReviewsResult(batch) ==
    IF batch = <<>> THEN EmptyAnalysis
    ELSE LET ss == AnalyzeEach(batch)
             avg_sentiment == FlDivInt(SumScores(ss), Len(ss))
             positive_count == CountLabel(ss, "positive")
             negative_count == CountLabel(ss, "negative")
             neutral_count == NeutralCount(Len(ss), positive_count, negative_count)
         IN [avg_sentiment |-> RoundDecimals(avg_sentiment, 1000),
             sentiment_label |-> CalculateSentimentLabel(avg_sentiment),
             total_reviews |-> Len(batch),
             positive_count |-> positive_count,
             negative_count |-> negative_count,
             neutral_count |-> neutral_count,
             sentiment_distribution |->
                 [positive |-> Percentage(positive_count, Len(ss)),
                  negative |-> Percentage(negative_count, Len(ss)),
                  neutral |-> Percentage(neutral_count, Len(ss))]]

\* analyze_reviews(reviews)
AnalyzeReviews ==
    /\ summary = NoSummary
    /\ summary' = AnalyzeReviewsResult(reviews)
    /\ sentiments' = AnalyzeEach(reviews)
    /\ UNCHANGED <<reviews, notSentiment>>

\* the batches: reviews with and without text, rating and lexicon hits
ReviewInputs ==
    { [text |-> <<>>, rating |-> 5],
      [text |-> <<>>, rating |-> 2],
      [text |-> <<"excellent", "quality">>, rating |-> NoRating],
      [text |-> <<"bad">>, rating |-> 0],
      [text |-> <<"phone">>, rating |-> 3],
      [text |-> <<"¡¿">>, rating |-> 4],
      [text |-> <<"no", "funciona">>, rating |-> NoRating],
      [text |-> NoText, rating |-> NoRating] }

InitSentiment ==
    /\ RerunAtRest
    /\ GuardAtRest
    /\ KeywordsAtRest
    /\ CallbackAtRest
    /\ PkceConcAtRest
    /\ RateConcAtRest
    /\ ArticleAtRest
    /\ PipelineAtRest
    /\ PageAtRest
    /\ reviews \in SeqsUpTo(ReviewInputs, MaxBatch)
    /\ sentiments = <<>>
    /\ summary = NoSummary
    /\ ExtractAtRest
    /\ HttpAtRest
    /\ PkceAtRest
    /\ RateAtRest

NextSentiment == AnalyzeReviews

SpecSentiment == InitSentiment /\ [][NextSentiment]_vars

\* one review of any text and rating
Texts == SeqsUpTo(Vocabulary, MaxWords) \cup {NoText}
Ratings == {NoRating, -1, 0, 1, 2, 3, 4, 5, 10}

InitReview ==
    /\ RerunAtRest
    /\ GuardAtRest
    /\ KeywordsAtRest
    /\ CallbackAtRest
    /\ PkceConcAtRest
    /\ RateConcAtRest
    /\ ArticleAtRest
    /\ PipelineAtRest
    /\ PageAtRest
    /\ reviews \in {<<[text |-> t, rating |-> r]>> : t \in Texts, r \in Ratings}
    /\ sentiments = <<>>
    /\ summary = NoSummary
    /\ ExtractAtRest
    /\ HttpAtRest
    /\ PkceAtRest
    /\ RateAtRest

SpecReview == InitReview /\ [][NextSentiment]_vars

\* --------------- _extract_sentiment_weighted_keywords and extract_keywords
\* the stopword sets, restricted to the words used here: 'producto' is a
\* stopword of the analyzer alone
AnalyzerStopWords == {"no", "producto"}
HelperStopWords == {"no"}

\* re.sub(r'[^\w]', '', raw)
StripNonWord(raw) ==
    CASE raw = "phone," -> "phone"
      [] raw = "!!" -> ""
      [] raw = "¡¿" -> ""
      [] OTHER -> raw

\* len(w)
WordLen(w) ==
    CASE w = "" -> 0
      [] w = "no" -> 2
      [] w = "bad" -> 3
      [] w = "usb3" -> 4
      [] w \in {"phone", "great"} -> 5
      [] w = "quality" -> 7
      [] w \in {"producto", "funciona"} -> 8
      [] w = "excellent" -> 9
      [] OTHER -> 10

\* w.isalpha()
IsAlpha(w) == w \notin {"", "usb3"}

\* not (len(w) <= 3 or not w.isalpha() or w in stop_words)
KeepsWord(w, stop_words) == WordLen(w) > 3 /\ IsAlpha(w) /\ w \notin stop_words

\* text.lower().split(), each token then stripped of its non-word characters
KeywordTokens(text) ==
    LET raws == SelectSeq([i \in DOMAIN text |-> Lower(text[i])], LAMBDA w : w # "")
    IN [i \in DOMAIN raws |-> StripNonWord(raws[i])]

\* |a - b|
FlAbsDiff(a, b) ==
    IF a = FlZero THEN b
    ELSE IF b = FlZero THEN a
    ELSE LET e == IF a.e < b.e THEN a.e ELSE b.e
             x == a.m * Pow2(a.e - e)
             y == b.m * Pow2(b.e - e)
         IN FlRound(IF x >= y THEN x - y ELSE y - x, 1, e)

FlMax(a, b) == IF FlLeq(a, b) THEN b ELSE a

\* abs(float(s.get('score', 0.5)) - 0.5)
Intensity(s) == FlAbsDiff(s.score, FlHalf)

\* 'if intensity <= 0.05: continue'
NearNeutral(s) == FlLeq(Intensity(s), FlQuot(1, 20))

\* a faulty ReviewWeights: a neutral review weighs like a positive one
ReviewWeights_NeutralCounts(text, s) ==
    IF text = <<>> THEN <<>>
    ELSE LET ws == SelectSeq(KeywordTokens(text), LAMBDA w : KeepsWord(w, AnalyzerStopWords))
         IN [i \in DOMAIN ws |->
                [w |-> ws[i], label |-> IF s.label = "neutral" THEN "positive" ELSE s.label,
                 by |-> FlMax(FlQuot(1, 10), Intensity(s))]]

\* the additions one review makes to pos_counter and neg_counter, in order
ReviewWeights(text, s) ==
    IF text = <<>> \/ NearNeutral(s) \/ s.label = "neutral" THEN <<>>
    ELSE LET ws == SelectSeq(KeywordTokens(text), LAMBDA w : KeepsWord(w, AnalyzerStopWords))
         IN [i \in DOMAIN ws |->
                [w |-> ws[i], label |-> s.label,
                 by |-> FlMax(FlQuot(1, 10), Intensity(s))]]

\* the additions of the whole batch, review after review
RECURSIVE BatchWeights(_, _)
BatchWeights(cleaned, ss) ==
    IF cleaned = <<>> THEN <<>>
    ELSE BatchWeights(SubSeq(cleaned, 1, Len(cleaned) - 1), SubSeq(ss, 1, Len(ss) - 1))
         \o ReviewWeights(cleaned[Len(cleaned)], ss[Len(ss)])

\* pos_counter[w] or neg_counter[w] after all the additions; 0.0 without any
RECURSIVE CounterValue(_, _, _)
CounterValue(adds, label, w) ==
    IF adds = <<>> THEN FlZero
    ELSE LET last == adds[Len(adds)]
             before == CounterValue(SubSeq(adds, 1, Len(adds) - 1), label, w)
         IN IF last.w = w /\ last.label = label THEN FlAdd(before, last.by) ELSE before

\* combined_scores[k]
CombinedWeight(adds, k) ==
    FlAdd(CounterValue(adds, "positive", k), CounterValue(adds, "negative", k))

\* a < b
FlLess(a, b) == ~FlLeq(b, a)

\* sorted(..., key=weight, reverse=True) is stable: k goes before the first
\* entry of smaller weight
RECURSIVE InsertByWeight(_, _, _)
InsertByWeight(sorted, k, adds) ==
    IF sorted = <<>> THEN <<k>>
    ELSE IF FlLess(CombinedWeight(adds, Head(sorted)), CombinedWeight(adds, k))
         THEN <<k>> \o sorted
         ELSE <<Head(sorted)>> \o InsertByWeight(Tail(sorted), k, adds)

RECURSIVE SortedByWeight(_, _)
SortedByWeight(ks, adds) ==
    IF ks = <<>> THEN <<>>
    ELSE InsertByWeight(SortedByWeight(SubSeq(ks, 1, Len(ks) - 1), adds), ks[Len(ks)], adds)

\* set(list(pos_counter.keys()) + list(neg_counter.keys())), as the process
\* iterates it: the order follows the hashes of the strings, which differ
\* from one process to the next
KeySet(adds, order) == SelectSeq(order, LAMBDA w : \E i \in DOMAIN adds : adds[i].w = w)

FirstN(seq, n) == IF Len(seq) <= n THEN seq ELSE SubSeq(seq, 1, n)

\* the weighted stage: 'for k in combined_sorted', up to top_n
WeightedStage(adds, order, top_n) == FirstN(SortedByWeight(KeySet(adds, order), adds), top_n)

\* ' '.join(all_texts).lower().split() over the reviews with a text
RECURSIVE AllWords(_)
AllWords(cleaned) ==
    IF cleaned = <<>> THEN <<>>
    ELSE AllWords(SubSeq(cleaned, 1, Len(cleaned) - 1)) \o KeywordTokens(cleaned[Len(cleaned)])

\* the words of a Counter in the order of their first occurrence
RECURSIVE FirstOccurrences(_)
FirstOccurrences(ws) ==
    IF ws = <<>> THEN <<>>
    ELSE LET before == FirstOccurrences(SubSeq(ws, 1, Len(ws) - 1))
         IN IF \E i \in DOMAIN before : before[i] = ws[Len(ws)] THEN before
            ELSE Append(before, ws[Len(ws)])

\* word_freq[word]
Frequency(ws, w) == Len(SelectSeq(ws, LAMBDA x : x = w))

\* most_common: k goes before the first entry of smaller count
RECURSIVE InsertByCount(_, _, _)
InsertByCount(sorted, k, ws) ==
    IF sorted = <<>> THEN <<k>>
    ELSE IF Frequency(ws, Head(sorted)) < Frequency(ws, k) THEN <<k>> \o sorted
         ELSE <<Head(sorted)>> \o InsertByCount(Tail(sorted), k, ws)

RECURSIVE MostCommon(_, _)
MostCommon(ks, ws) ==
    IF ks = <<>> THEN <<>>
    ELSE InsertByCount(MostCommon(SubSeq(ks, 1, Len(ks) - 1), ws), ks[Len(ks)], ws)

\* extract_keywords(text, top_n) of utils/helpers.py
ExtractKeywords(words, top_n) ==
    LET kept == SelectSeq(words, LAMBDA w : KeepsWord(w, HelperStopWords))
    IN FirstN(MostCommon(FirstOccurrences(kept), kept), top_n)

\* a faulty FillFrom: the fallback's words are added whether seen or not
FillFrom_Unseen(result, fallback, top_n) == FirstN(result \o fallback, top_n)

\* 'for k in fallback': k is added unless seen, then the size is tested
RECURSIVE FillFrom(_, _, _)
FillFrom(result, fallback, top_n) ==
    IF fallback = <<>> THEN result
    ELSE LET k == Head(fallback)
             next == IF \E i \in DOMAIN result : result[i] = k THEN result
                     ELSE Append(result, k)
         IN IF Len(next) >= top_n THEN next ELSE FillFrom(next, Tail(fallback), top_n)

\* len(result) < max(5, top_n // 2)
NeedsFallback(result, top_n, below) == Len(result) < below

\* _extract_sentiment_weighted_keywords(cleaned_reviews, sentiments, top_n):
\* the keywords, and how many of them the weighted stage gave
ExtractSentimentWeightedKeywords(cleaned, ss, order, top_n) ==
    IF cleaned = <<>> \/ ss = <<>>
    THEN [keywords |-> <<>>, weighted |-> 0, combined_scores |-> <<>>]
    ELSE LET adds == BatchWeights(cleaned, ss)
             result == WeightedStage(adds, order, top_n)
         IN [keywords |-> IF NeedsFallback(result, top_n, FallbackBelow)
                          THEN FillFrom(result, ExtractKeywords(AllWords(cleaned), top_n), top_n)
                          ELSE result,
             weighted |-> Len(result),
             combined_scores |-> [k \in {adds[i].w : i \in DOMAIN adds} |->
                                     CombinedWeight(adds, k)]]

\* the cleaned_reviews of analyze_reviews
CleanedReviews(batch) == [i \in DOMAIN batch |-> CleanText(batch[i].text)]

\* the keywords of analyze_reviews(reviews) in the running process
AnalyzeKeywords ==
    /\ Len(kwOut) < MaxAnalyses
    /\ kwOut' = Append(kwOut,
                  [proc |-> kwProc] @@
                  ExtractSentimentWeightedKeywords(CleanedReviews(reviews), AnalyzeEach(reviews),
                                                   hashOrder, TopN))
    /\ UNCHANGED <<hashOrder, kwProc, sentiment, notKeywords>>

\* the words that can be keys of the two counters
KeyWords == {"quality", "phone", "great"}
HashOrders == {o \in [1..Cardinality(KeyWords) -> KeyWords] :
                 \A i, j \in DOMAIN o : o[i] = o[j] => i = j}

\* the server is restarted: the new process hashes strings with a new seed
Restart ==
    /\ kwProc = 1
    /\ kwProc' = 2
    /\ hashOrder' \in HashOrders
    /\ UNCHANGED <<kwOut, sentiment, notKeywords>>

\* positive, negative and near-neutral reviews, with words of every kind
KeywordReviews ==
    { [text |-> <<"no", "quality">>, rating |-> NoRating],
      [text |-> <<"bad", "phone,">>, rating |-> 1],
      [text |-> <<"phone", "producto">>, rating |-> NoRating],
      [text |-> <<"Great", "usb3">>, rating |-> NoRating],
      [text |-> <<"quality", "phone">>, rating |-> 4] }

InitKeywords ==
    /\ RerunAtRest
    /\ GuardAtRest
    /\ reviews \in SeqsUpTo(KeywordReviews, MaxBatch)
    /\ sentiments = <<>>
    /\ summary = NoSummary
    /\ hashOrder \in HashOrders
    /\ kwProc = 1
    /\ kwOut = <<>>
    /\ CallbackAtRest
    /\ PkceConcAtRest
    /\ RateConcAtRest
    /\ ArticleAtRest
    /\ PipelineAtRest
    /\ PageAtRest
    /\ ExtractAtRest
    /\ HttpAtRest
    /\ PkceAtRest
    /\ RateAtRest

NextKeywords ==
    \/ AnalyzeKeywords
    \/ Restart

SpecKeywords == InitKeywords /\ [][NextKeywords]_vars

\* ------------------------------- services/scraper.py _extract_meli_item_id
\* str.upper()
Upper(v) ==
    IF v = "def999" THEN "DEF999"
    ELSE IF v = "abc1234567" THEN "ABC1234567"
    ELSE v

\* parse_qs(...).get(key): the non-blank values of the key, in order
ParseQsGet(params, key) ==
    LET hits == SelectSeq(params, LAMBDA p : p.key = key /\ p.value # "")
    IN [i \in DOMAIN hits |-> hits[i].value]

\* a faulty WidOrItemId: item_id is looked up before wid
WidOrItemId_ItemIdFirst(params) ==
    IF ParseQsGet(params, "item_id") # <<>> THEN ParseQsGet(params, "item_id")
    ELSE ParseQsGet(params, "wid")

\* q.get('wid') or q.get('item_id') or []
WidOrItemId(params) ==
    IF ParseQsGet(params, "wid") # <<>> THEN ParseQsGet(params, "wid")
    ELSE ParseQsGet(params, "item_id")

\* re.search(r"/p/([A-Z]{3}-?\d{6,})", path, re.IGNORECASE): group 1, or nothing
PathMatch(path) ==
    IF path = "/p/ABC1234567" THEN "ABC1234567"
    ELSE IF path = "/p/abc1234567" THEN "abc1234567"
    ELSE NoItem

\* re.search(r'([A-Z]{3}-?\d{6,})', piece): group 1, or nothing
GeneralMatchIn(piece) ==
    IF piece = "/p/ABC1234567" THEN "ABC1234567"
    ELSE IF piece = "/MLA-123456789-titulo" THEN "MLA-123456789"
    ELSE IF piece \in {"MLB222222", "MLB987654321"} THEN piece
    ELSE NoItem

\* the URL's text, left to right: path, query values, fragment values
UrlPieces(url) ==
    <<url.path>> \o [i \in DOMAIN url.query |-> url.query[i].value]
                 \o [i \in DOMAIN url.fragment |-> url.fragment[i].value]

\* re.search over the whole URL: the leftmost match
GeneralMatch(url) ==
    LET found == SelectSeq(UrlPieces(url), LAMBDA x : GeneralMatchIn(x) # NoItem)
    IN IF found = <<>> THEN NoItem ELSE GeneralMatchIn(found[1])

\* _extract_meli_item_id(url); urlparse raises on a URL it cannot parse
ExtractMeliItemId(url) ==
    IF ~url.parses THEN NoItem
    ELSE IF WidOrItemId(url.query) # <<>> THEN Upper(WidOrItemId(url.query)[1])
    ELSE IF WidOrItemId(url.fragment) # <<>> THEN Upper(WidOrItemId(url.fragment)[1])
    ELSE IF PathMatch(url.path) # NoItem THEN Upper(PathMatch(url.path))
    ELSE Upper(GeneralMatch(url))

ExtractItemId ==
    /\ exId = Pending
    /\ exId' = ExtractMeliItemId(exUrl)
    /\ UNCHANGED <<exUrl, notExtract>>

InitExtract ==
    /\ RerunAtRest
    /\ GuardAtRest
    /\ KeywordsAtRest
    /\ CallbackAtRest
    /\ PkceConcAtRest
    /\ RateConcAtRest
    /\ ArticleAtRest
    /\ PipelineAtRest
    /\ PageAtRest
    /\ exUrl \in [path : UrlPaths, query : SeqsUpTo(UrlParams, MaxParams),
                  fragment : SeqsUpTo(UrlParams, MaxParams), parses : BOOLEAN]
    /\ exId = Pending
    /\ SentimentAtRest
    /\ HttpAtRest
    /\ PkceAtRest
    /\ RateAtRest

NextExtract == ExtractItemId

SpecExtract == InitExtract /\ [][NextExtract]_vars

InitPage ==
    /\ RerunAtRest
    /\ GuardAtRest
    /\ KeywordsAtRest
    /\ CallbackAtRest
    /\ PkceConcAtRest
    /\ RateConcAtRest
    /\ ArticleAtRest
    /\ PipelineAtRest
    /\ page \in Pages
    /\ htmlOut = NoExtract
    /\ byUrlOut = NoExtract
    /\ ExtractAtRest
    /\ SentimentAtRest
    /\ HttpAtRest
    /\ PkceAtRest
    /\ RateAtRest

NextPage == ExtractPage

SpecPage == InitPage /\ [][NextPage]_vars

\* _scrape_mercadolibre_html(item_id) builds the URL of the item page
ProductPageUrl ==
    /\ artVia = "none"
    /\ artVia' = "product"
    /\ artUrl' = ArticleAddress(artItem)
    /\ UNCHANGED <<artItem, notArticle>>

\* scrape_reviews_api without access token: _scrape_mercadolibre_reviews(item_id)
ReviewsDirectUrl ==
    /\ artVia = "none"
    /\ artVia' = "rev_direct"
    /\ artUrl' = ArticleAddress(artItem)
    /\ UNCHANGED <<artItem, notArticle>>

\* scrape_reviews_api after a failed API request
ReviewsFallbackUrl ==
    /\ artVia = "none"
    /\ artVia' = "rev_fallback"
    /\ artUrl' = ArticleAddress(FallbackArgument(artItem))
    /\ UNCHANGED <<artItem, notArticle>>

InitArticle ==
    /\ RerunAtRest
    /\ GuardAtRest
    /\ KeywordsAtRest
    /\ CallbackAtRest
    /\ PkceConcAtRest
    /\ RateConcAtRest
    /\ artItem \in ItemIds
    /\ artVia = "none"
    /\ artUrl = [tld |-> "", path |-> <<>>]
    /\ PipelineAtRest
    /\ PageAtRest
    /\ ExtractAtRest
    /\ SentimentAtRest
    /\ HttpAtRest
    /\ PkceAtRest
    /\ RateAtRest

NextArticle == ProductPageUrl \/ ReviewsDirectUrl \/ ReviewsFallbackUrl

SpecArticle == InitArticle /\ [][NextArticle]_vars

\* ------------------------------------------------------ analysis pipeline
\* derive_from_url(product.url): a name made from the URL's slug
DerivedName == "Derived From Url"
\* the Review rows a scraped list becomes: the API's reviews carry the API's
\* rate and content, the page's a text and 'rating or 3.0'
ReviewRow(tier) ==
    IF tier = "api" THEN [text |-> <<"excellent", "quality">>, rating |-> 5]
    ELSE [text |-> <<"bad">>, rating |-> 3]
ReviewRows(list) == [i \in 1..list.n |-> ReviewRow(list.tier)]
\* the rows stored by earlier analyses
StoredReviews == {<<>>, <<[text |-> <<"phone">>, rating |-> 3]>>}

\* analyze_product_complete from its start to scrape_product's first request
AnalyzeBegin(u) ==
    /\ plPc = "idle" /\ th[1].pc = "idle"
    /\ plPc' = "product"
    /\ plUrl' = u
    /\ th' = [th EXCEPT ![1] =
                 ScrapeProductBegin([IdleThread EXCEPT !.op = "product", !.url = u],
                                    accessToken)]
    /\ UNCHANGED <<product, dbReviews, analysis, plErr, plProduct, plImage,
                   creds, config, server, notAnalysis>>

\* scraper.scrape_reviews(product.url) up to its first request
BeginReviews ==
    ScrapeReviewsBegin([IdleThread EXCEPT !.op = "reviews", !.url = plUrl], accessToken)

\* the name analyze_product_complete stores: the scraped name unless it is
\* missing or a placeholder, else the name derived from the URL
StoredName(scraped_name) ==
    IF NameNeedsHtml(scraped_name) THEN DerivedName ELSE scraped_name

\* a faulty NeedsImage: strict mode stops the image enrichment too
NeedsImage_UnlessStrict(info, strict) == ~TruthyImage(info.image) /\ ~strict

\* 'if not image_candidate': the snapshot names no image
NeedsImage(info, strict) == ~TruthyImage(info.image)

\* analyze_product_complete once scrape_product returned or raised: the name is
\* stored, and the original URL is fetched when the snapshot has no image
AfterProduct ==
    /\ plPc = "product" /\ th[1].pc = "done"
    /\ plProduct' = [result |-> th[1].result, data |-> th[1].data]
    /\ LET info == th[1].result IN
       IF info.kind # "snapshot"
       THEN /\ plPc' = "raised"
            /\ plErr' = IF info.kind = "raised" THEN info.exc
                        ELSE [type |-> "AttributeError"]
            /\ th' = [th EXCEPT ![1] = IdleThread]
            /\ UNCHANGED product
       ELSE /\ plErr' = plErr
            /\ IF NeedsImage(info, strictApi)
               THEN /\ plPc' = "image"
                    /\ product' = [product EXCEPT !.name = StoredName(info.name)]
                    /\ th' = [th EXCEPT ![1] =
                                 BeginRequestGet(
                                     [IdleThread EXCEPT !.op = "image", !.url = plUrl],
                                     "by_url", RawUrl(plUrl), FALSE, NoToken,
                                     PageRetries)]
               ELSE /\ plPc' = "reviews"
                    /\ product' = [name |-> StoredName(info.name),
                                   image_url |-> info.image,
                                   price |-> IF info.price = NoPrice THEN product.price
                                             ELSE info.price]
                    /\ th' = [th EXCEPT ![1] = BeginReviews]
    /\ UNCHANGED <<plUrl, dbReviews, analysis, plImage,
                   creds, config, server, notAnalysis>>

\* analyze_product_complete once _scrape_mercadolibre_html_by_url(product.url)
\* returned: only its image is read; then the reviews are asked for
AfterImage ==
    /\ plPc = "image" /\ th[1].pc = "done"
    /\ plImage' = th[1].result.image
    /\ plPc' = "reviews"
    /\ LET alt == th[1].result
           info == plProduct.result
       IN product' = [product EXCEPT
                         !.image_url = IF TruthyImage(alt.image) THEN alt.image ELSE @,
                         !.price = IF info.price = NoPrice THEN @ ELSE info.price]
    /\ th' = [th EXCEPT ![1] = BeginReviews]
    /\ UNCHANGED <<plUrl, dbReviews, analysis, plErr, plProduct,
                   creds, config, server, notAnalysis>>

\* analyze_product_complete once scrape_reviews returned or raised: the reviews
\* are stored, every stored review is analyzed, the summary is stored
AfterReviews ==
    /\ plPc = "reviews" /\ th[1].pc = "done"
    /\ LET res == th[1].result IN
       IF res.kind # "list"
       THEN /\ plPc' = "raised"
            /\ plErr' = res.exc
            /\ UNCHANGED <<dbReviews, analysis, plRuns>>
       ELSE /\ plPc' = "completed"
            /\ plErr' = plErr
            /\ dbReviews' = dbReviews \o ReviewRows(res)
            /\ analysis' = AnalyzeReviewsResult(dbReviews \o ReviewRows(res))
            /\ plRuns' = Append(plRuns, [scraped |-> ReviewRows(res),
                                         summary |-> analysis'])
    /\ UNCHANGED <<th, plUrl, product, plProduct, plImage,
                   creds, config, server, notRerun>>

\* analyze_product_complete(product_id) called again for the same product
AnalyzeAgain ==
    /\ plPc = "completed" /\ Len(plRuns) < MaxRuns
    /\ plPc' = "product"
    /\ th' = [th EXCEPT ![1] =
                 ScrapeProductBegin([IdleThread EXCEPT !.op = "product", !.url = plUrl],
                                    accessToken)]
    /\ plErr' = NoExc
    /\ plProduct' = NoProductInfo
    /\ plImage' = NotFetched
    /\ UNCHANGED <<plUrl, product, dbReviews, analysis,
                   creds, config, server, notAnalysis>>

\* what the upstream may answer during an analysis: anything, pages and
\* payloads without image included
PipelineAnswers(u) == AnyAnswer(u) \cup {WithoutImage(a) : a \in Responses(u)}

InitPipeline ==
    /\ RerunAtRest
    /\ GuardAtRest
    /\ KeywordsAtRest
    /\ CallbackAtRest
    /\ PkceConcAtRest
    /\ RateConcAtRest
    /\ ArticleAtRest
    /\ plPc = "idle"
    /\ plUrl = NoUrl
    /\ product = StoredProduct
    /\ dbReviews \in StoredReviews
    /\ analysis = NoSummary
    /\ plErr = NoExc
    /\ plProduct = NoProductInfo
    /\ plImage = NotFetched
    /\ th = [t \in Threads |-> IdleThread]
    /\ accessToken \in {NoToken, InitToken}
    /\ envAccess = accessToken
    /\ envRefresh = NoToken
    /\ clientId = TRUE
    /\ clientSecret = TRUE
    /\ strictApi \in BOOLEAN
    /\ issued = 0
    /\ exchanged = {}
    /\ lastIssued = [access |-> accessToken, refresh |-> envRefresh]
    /\ raceSeen = FALSE
    /\ PageAtRest
    /\ ExtractAtRest
    /\ SentimentAtRest
    /\ PkceAtRest
    /\ RateAtRest

\* one analysis of one product, from the request to the stored summary, in a
\* deployment without refresh credential
NextPipeline ==
    \/ \E u \in InputUrls : AnalyzeBegin(u)
    \/ RgGet(1, PipelineAnswers(th[1].rgUrl))
    \/ RfRead(1)
    \/ ApiItemReturn(1)
    \/ HtmlReturn(1)
    \/ ByUrlReturn(1)
    \/ ApiReviewsReturn(1)
    \/ ReviewsPageReturn(1)
    \/ AfterProduct
    \/ AfterImage
    \/ AfterReviews

SpecPipeline == InitPipeline /\ [][NextPipeline]_vars

\* a product never analyzed before, analyzed up to MaxRuns times
InitRerun == InitPipeline /\ dbReviews = <<>>

NextRerun == NextPipeline \/ AnalyzeAgain

SpecRerun == InitRerun /\ [][NextRerun]_vars

\* one worker whose every enabled step is eventually taken: a call that has
\* begun runs on (requests time out, time.sleep returns)
FairSpec == Spec /\ WF_vars(Next)

\* ------------------------------------------------------------ properties
InRequestGet(t) ==
    th[t].pc \in {"rg_get", "rf_read", "rf_post", "rf_wacc", "rf_wref", "rg_reget"}
InRefresh(t) == th[t].pc \in {"rf_post", "rf_wacc", "rf_wref"}
Creds == <<accessToken, envAccess, envRefresh>>

\* C1: scrape_product always returns a product snapshot and scrape_reviews
\* always returns a list, whatever the URL and whatever the upstream does:
\* neither raises and neither returns anything else.
C1_BestEffort ==
    \A t \in Threads :
        th[t].pc = "done" =>
            /\ (th[t].op = "product") => (th[t].result.kind = "snapshot")
            /\ (th[t].op = "reviews") => (th[t].result.kind = "list")

\* C2: if every API answer was 401 and no refresh is configured, then
\* scrape_product_api sent no token request, made all retries + 1 attempts,
\* went on to the item page and returns the item-page tier's snapshot, whose
\* name is the page's og:title when the page carries one.
C2_Fallback401 ==
    \A t \in Threads :
        ( /\ th[t].pc = "done" /\ th[t].op = "product" /\ th[t].url.item # NoItem
          /\ th[t].hApiGets > 0 /\ ~th[t].hApiNon401
          /\ ~(clientId /\ clientSecret /\ envRefresh # NoToken) )
        => /\ ~th[t].hTokenPosted
           /\ th[t].hApiGets = ApiRetries + 1
           /\ th[t].hPageGets > 0
           /\ th[t].result.kind = "snapshot"
           /\ th[t].result.tier = "item_page"
           /\ (th[t].rgOut = "return" /\ Truthy(th[t].resp.body.ogTitle))
                => th[t].result.name = th[t].resp.body.ogTitle

C2_Witness ==
    /\ th[1].pc = "done" /\ th[1].op = "product"
    /\ th[1].hApiGets = 3 /\ ~th[1].hApiNon401
    /\ clientId /\ clientSecret /\ envRefresh = NoToken
    /\ th[1].result.name = "OG Title" /\ th[1].result.tier = "item_page"

\* C3: without an access credential, scrape_product_api and
\* scrape_reviews_api send nothing to the API host (and nothing to the token
\* endpoint): they request the item page at once and return what the
\* item-page tier returns.
C3_NoCredentialNoApi ==
    \A t \in Threads :
        ( /\ th[t].op \in {"product", "reviews"} /\ th[t].url.item # NoItem
          /\ accessToken = NoToken )
        => /\ th[t].hApiGets = 0
           /\ ~th[t].hTokenPosted
           /\ th[t].ctx \in {"html_direct", "rev_direct"}
           /\ th[t].rgUrl.host = "page"
           /\ (th[t].pc = "done") =>
                /\ th[t].result.tier = "item_page"
                /\ th[t].hPageGets > 0

C3_Witness ==
    /\ th[1].pc = "done" /\ th[1].op = "reviews" /\ th[1].url.item # NoItem
    /\ accessToken = NoToken
    /\ th[1].result = ReviewList(1, "item_page")

\* C4: inside one attempt of _request_get a refresh is attempted only on a
\* 401 from a request to the API host, and at most once; the request is
\* re-issued at most once, with the live token; a page-scrape request never
\* triggers a refresh.
C4_RefreshOnlyForApi401 ==
    \A t \in Threads :
        /\ ~th[t].hBadRefresh
        /\ th[t].hRefreshInAttempt <= 1
        /\ th[t].hRegetInAttempt <= 1
        /\ (th[t].ctx \notin {"api_item", "api_reviews"})
             => (th[t].pc \notin {"rf_read", "rf_post", "rf_wacc", "rf_wref", "rg_reget"})

\* C5: during one _request_get call, over all its attempts, the credential
\* refresh is performed at most once (at most one token request is sent).
C5_SingleRefreshPerCall ==
    \A t \in Threads : th[t].hTokenPosts <= 1

\* C6 (safety part): _request_get makes at most retries + 1 attempts, sends
\* nothing after a 2xx answer, and when it raises after its attempts the
\* error is that of the last attempt, all attempts having been made.
C6_Bounded ==
    \A t \in Threads :
        /\ th[t].hAttempts <= th[t].retries + 1
        /\ th[t].attempt <= th[t].retries + 1
        /\ ~th[t].hGetAfter2xx
        /\ (th[t].pc = "rg_ret" /\ th[t].rgOut = "raise")
             => /\ th[t].hAttempts = th[t].retries + 1
                /\ th[t].lastExc # NoExc
                /\ th[t].lastExc = th[t].hErrOfAttempt
        /\ (th[t].hSaw2xx /\ th[t].ctx # "none" /\ ~InRequestGet(t))
             => th[t].rgOut = "return"

\* C6: _request_get always terminates (a call that has begun reaches its
\* return or its raise), within the bounds of C6_Bounded.
C6_Terminates ==
    /\ []C6_Bounded
    /\ \A t \in {1} : InRequestGet(t) ~> (th[t].pc = "rg_ret")

C6_Witness ==
    /\ th[1].pc = "rg_ret" /\ th[1].rgOut = "raise" /\ th[1].retries = ApiRetries
    /\ th[1].hAttempts = 3 /\ th[1].lastExc = HttpError(500)

\* C7: a refresh called while client id, client secret or refresh token is
\* missing sends no token request, returns false, leaves the credentials as
\* they were and logs presence flags only.
C7_MissingConfigFailsFast ==
    \A t \in Threads :
        /\ InRefresh(t) => (clientId /\ clientSecret /\ th[t].rt # NoToken)
        /\ ( /\ th[t].hRfRet # "none"
             /\ ~(clientId /\ clientSecret /\ th[t].hPre[3] # NoToken) )
           => /\ th[t].hRfRet = "false"
              /\ th[t].hTokenPosts = 0
              /\ Creds = th[t].hPre
              /\ th[t].logged.event = "ml_refresh_missing_config"
              /\ \A f \in DOMAIN th[t].logged \ {"event"} :
                      th[t].logged[f] \in BOOLEAN
              /\ th[t].logged.has_refresh_token = (th[t].hPre[3] # NoToken)

C7_Witness ==
    /\ th[1].hRfRet = "false" /\ clientId /\ clientSecret
    /\ envRefresh = NoToken /\ accessToken = InitToken
    /\ th[1].logged.event = "ml_refresh_missing_config"

\* C8: when refresh returns true the live access credential is the
\* response's access_token and the stored refresh credential is the
\* response's refresh_token if one was issued, else unchanged; when it
\* returns false both are unchanged.
C8_RefreshWritesResponse ==
    \A t \in Threads :
        /\ (th[t].hRfRet = "true")
             => /\ accessToken = th[t].tokResp.access
                /\ envRefresh = (IF th[t].tokResp.refresh # NoToken
                                 THEN th[t].tokResp.refresh ELSE th[t].hPre[3])
        /\ (th[t].hRfRet = "false") => (Creds = th[t].hPre)

\* thread t is between reading the refresh token and writing the credentials
InRefreshSection(t) ==
    th[t].pc \in {"rf_post", "rf_wacc", "rf_wref", "mr_post", "mr_wacc", "mr_wref"}

\* C9: two concurrent refreshes exclude each other: no refresh sends a
\* refresh token that another refresh has exchanged since this one read it,
\* and once no refresh is running the process's access credential and refresh
\* credential are those of the latest token response.
C9_RefreshesExclusive ==
    /\ ~raceSeen
    /\ (\A t \in Threads : ~InRefreshSection(t))
         => /\ envAccess = lastIssued.access
            /\ envRefresh = lastIssued.refresh

\* C10: for every issued state s, the first consume(s), when made while the
\* entry is no older than the TTL, returns the verifier stored at issue, and
\* every later consume(s) returns absent, whatever happened in between.
C10_ConsumeOnce ==
    (lastPop.state # NoState /\ pkIssued[lastPop.state] # NoEntry)
    => /\ (lastPop.nth = 1 /\ lastPop.age <= PKCE_TTL_SECONDS)
            => lastPop.result = pkIssued[lastPop.state].verifier
       /\ (lastPop.nth > 1) => lastPop.result = Absent

C10_Witness ==
    /\ lastPop.state = "s1" /\ lastPop.nth = 2 /\ lastPop.result = Absent
    /\ lastPop.age <= PKCE_TTL_SECONDS /\ lastPop.status = 400
    /\ pkIssued["s2"] # NoEntry /\ pkPops["s2"] = 1

\* C11: consume(s) returns the verifier if and only if an entry for s exists
\* and its age does not exceed the TTL (an entry aged exactly the TTL is still
\* valid); in every case s is absent from the store after the call and the
\* entries of all other states are unchanged.
C11_ConsumeRemoves ==
    (lastPop.state # NoState) =>
        LET s == lastPop.state
            had == lastPop.pre[s] # NoEntry
        IN /\ (lastPop.result # Absent) <=> (had /\ lastPop.age <= PKCE_TTL_SECONDS)
           /\ (lastPop.result # Absent) => (lastPop.result = lastPop.pre[s].verifier)
           /\ PKCE_STORE[s] = NoEntry
           /\ \A o \in States \ {s} : PKCE_STORE[o] = lastPop.pre[o]

C11_Witness ==
    /\ lastPop.state = "s1" /\ lastPop.pre["s1"] # NoEntry
    /\ lastPop.age = PKCE_TTL_SECONDS /\ lastPop.result = lastPop.pre["s1"].verifier
    /\ PKCE_STORE["s1"] = NoEntry /\ PKCE_STORE["s2"] # NoEntry

\* C12: a rate_limit call for key k at time t is admitted if and only if fewer
\* than the limit admitted calls of k have a timestamp no older than the window
\* at t (a timestamp exactly one window old still counts); only admitted calls
\* are recorded, a rejected call records nothing.
C12_SlidingWindow ==
    (lastCall.key # NoKey) =>
        /\ lastCall.admitted <=> (lastCall.inWindow < MaxPerMinute)
        /\ RATE_STATE[lastCall.key] = InWindow(rlAdmitted[lastCall.key], lastCall.at)

\* the limit was reached at time 0 and a call made once the window has passed
\* is admitted again, the deque then holding that call alone
C12_Witness ==
    /\ lastCall.key = "k1" /\ lastCall.admitted /\ lastCall.at = WindowSeconds + 1
    /\ Len(rlAdmitted["k1"]) = MaxPerMinute + 1
    /\ \A i \in 1..MaxPerMinute : rlAdmitted["k1"][i] = 0
    /\ RATE_STATE["k1"] = <<WindowSeconds + 1>>

C14_CountsSum ==
    (summary # NoSummary) =>
        /\ summary.positive_count + summary.negative_count + summary.neutral_count
              = summary.total_reviews
        /\ summary.total_reviews = Len(reviews)

C14_Witness ==
    /\ summary # NoSummary /\ Len(reviews) = 3
    /\ summary.positive_count = 1 /\ summary.negative_count = 1
    /\ summary.neutral_count = 1

\* C15: analyze_reviews on an empty batch returns exactly the neutral-zero
\* summary: average 0.5, label neutral, total and the three counts 0, no
\* keyword, distribution all 0.
C15_EmptyBatch ==
    (summary # NoSummary /\ reviews = <<>>) =>
        summary = [avg_sentiment |-> FlHalf, sentiment_label |-> "neutral",
                   total_reviews |-> 0, positive_count |-> 0, negative_count |-> 0,
                   neutral_count |-> 0, keywords |-> <<>>,
                   sentiment_distribution |->
                       [positive |-> FlZero, negative |-> FlZero, neutral |-> FlZero]]

C15_Witness ==
    /\ reviews = <<>> /\ summary # NoSummary /\ summary.total_reviews = 0
    /\ sentiments = <<>>

\* the review has a rating: present, not null and greater than 0
Rated(review) == review.rating # NoRating /\ review.rating > 0

\* the text is absent or nothing of it survives the cleaning
Blank(text) == text = NoText \/ \A i \in DOMAIN text : text[i] = "¡¿"

\* C16: for a review with a rating r > 0, the combined score is min(1, r/5)
\* alone when its cleaned text is empty (text "" with rating 5 gives 1.0 and
\* label positive), and the arithmetic mean of the text score and min(1, r/5)
\* when its text is not empty, also when the text has no lexicon hit.
C16_RatedScore ==
    \A i \in DOMAIN sentiments :
        Rated(reviews[i]) =>
            LET r == reviews[i].rating
                rating_score == IF r >= 5 THEN FlOne ELSE FlQuot(r, 5)
            IN IF Blank(reviews[i].text)
               THEN /\ sentiments[i].score = rating_score
                    /\ (r = 5) => sentiments[i].label = "positive"
               ELSE sentiments[i].score
                        = FlDivInt(FlAdd(sentiments[i].text_sent.score, rating_score), 2)

C16_Witness ==
    /\ reviews = <<[text |-> <<"¡¿">>, rating |-> 5]>>
    /\ sentiments # <<>> /\ sentiments[1].score = FlOne
    /\ sentiments[1].label = "positive"

\* lexicon hits among the words of a text, letter case apart
Hits(text, lexicon) ==
    IF text = NoText THEN 0
    ELSE Cardinality({i \in DOMAIN text : Lower(text[i]) \in lexicon})

\* "funciona" right after "no": the phrase the code reads as one negative word
AfterNo(text) ==
    IF text = NoText THEN 0
    ELSE Cardinality({i \in DOMAIN text : /\ i > 1
                                          /\ Lower(text[i]) = "funciona"
                                          /\ Lower(text[i - 1]) = "no"})

TextScoreOf(positiveHits, negativeHits) ==
    IF positiveHits + negativeHits = 0 THEN FlHalf
    ELSE FlQuot(positiveHits, positiveHits + negativeHits)

ExactMean(a, b) == [n |-> a.n * b.d + b.n * a.d, d |-> 2 * a.d * b.d]

ExactScore(review, sent) ==
    LET hits == sent.text_sent.positive_count + sent.text_sent.negative_count
        text_score == IF hits = 0 THEN [n |-> 1, d |-> 2]
                      ELSE [n |-> sent.text_sent.positive_count, d |-> hits]
        rating_score == IF review.rating >= 5 THEN [n |-> 1, d |-> 1]
                        ELSE [n |-> review.rating, d |-> 5]
    IN IF ~Rated(review) THEN text_score
       ELSE IF Blank(review.text) THEN rating_score
       ELSE ExactMean(text_score, rating_score)

RECURSIVE ExactSum(_)
ExactSum(k) ==
    IF k = 0 THEN [n |-> 0, d |-> 1]
    ELSE LET a == ExactSum(k - 1)
             b == ExactScore(reviews[k], sentiments[k])
         IN [n |-> a.n * b.d + b.n * a.d, d |-> a.d * b.d]

ExactBand(q) ==
    IF 5 * q.n >= 3 * q.d THEN "positive"
    ELSE IF 5 * q.n <= 2 * q.d THEN "negative"
    ELSE "neutral"

\* C18: every label is positive iff its score >= 0.6, negative iff its score
\* <= 0.4 and neutral otherwise, the per-review labels behind the counts and
\* the overall label alike; the overall label is this band of the average of
\* the per-review combined scores.
C18_LabelBands ==
    (summary # NoSummary /\ reviews # <<>>) =>
        LET band(i) == ExactBand(ExactScore(reviews[i], sentiments[i]))
            total == ExactSum(Len(reviews))
        IN /\ \A i \in DOMAIN sentiments : sentiments[i].label = band(i)
           /\ summary.positive_count
                 = Cardinality({i \in DOMAIN reviews : band(i) = "positive"})
           /\ summary.negative_count
                 = Cardinality({i \in DOMAIN reviews : band(i) = "negative"})
           /\ summary.sentiment_label
                 = ExactBand([n |-> total.n, d |-> total.d * Len(reviews)])

\* the first non-blank value of the key among the parameters, or nothing
FirstValue(params, key) ==
    LET at == {i \in DOMAIN params : params[i].key = key /\ params[i].value # ""}
    IN IF at = {} THEN NoItem
       ELSE params[CHOOSE i \in at : \A j \in at : i <= j].value

\* the strategies in the order of the claim, each with what it yields
Strategies(url) ==
    <<FirstValue(url.query, "wid"), FirstValue(url.query, "item_id"),
      FirstValue(url.fragment, "wid"), FirstValue(url.fragment, "item_id"),
      PathMatch(url.path), GeneralMatch(url)>>

FirstYield(url) ==
    LET ys == SelectSeq(Strategies(url), LAMBDA y : y # NoItem)
    IN IF ys = <<>> THEN NoItem ELSE Upper(ys[1])

\* C19: _extract_meli_item_id tries the query parameter (wid, then item_id),
\* the fragment parameter (wid, then item_id), the path segment /p/<ID> and
\* the general pattern over the whole URL, in this order; the first strategy
\* that yields a value decides the result, which is absent only when no
\* strategy yields a value.
C19_FirstStrategyWins ==
    (exId # Pending) => (exId = FirstYield(exUrl))

\* C19, amended: the same for every URL that urlparse accepts; for a URL it
\* rejects no strategy is tried and the result is absent.
C19_FirstStrategyWinsParsed ==
    (exId # Pending) =>
        exId = (IF exUrl.parses THEN FirstYield(exUrl) ELSE NoItem)

C19_Witness ==
    /\ exUrl.path = "/p/ABC1234567" /\ exUrl.parses
    /\ exUrl.query = <<[key |-> "item_id", value |-> "MLB222222"],
                       [key |-> "wid", value |-> "def999"]>>
    /\ exId = "DEF999"

\* C20: with strict mode on, scrape_product_api never starts the name
\* enrichment: once the API request has returned a JSON object no item-page
\* request is issued, whatever the object's title, and the snapshot returned
\* is the API tier's, its name the title, or 'Unknown Product' when the title
\* is missing.
C20_StrictNoEnrichment ==
    \A t \in Threads :
        (strictApi /\ th[t].op = "product") =>
          /\ th[t].ctx # "html_enrich"
          /\ ( /\ th[t].pc = "done" /\ th[t].ctx = "api_item"
               /\ th[t].rgOut = "return" /\ th[t].resp.body.kind = "obj" )
             => /\ th[t].hPageGets = 0
                /\ th[t].result.kind = "snapshot"
                /\ th[t].result.tier = "api"
                /\ th[t].result.name =
                     (IF Truthy(th[t].resp.body.title)
                      THEN th[t].resp.body.title ELSE Placeholder)

C20_Witness ==
    /\ strictApi /\ th[1].pc = "done" /\ th[1].op = "product"
    /\ th[1].ctx = "api_item" /\ th[1].rgOut = "return"
    /\ th[1].resp.body.kind = "obj" /\ th[1].resp.body.title = NoName
    /\ th[1].hPageGets = 0
    /\ th[1].result.name = Placeholder /\ th[1].result.tier = "api"

\* C27: for the same page content the item-ID page-scrape tier and the
\* raw-URL page-scrape tier extract the same name, price and image.
C27_TiersAgree ==
    (htmlOut # NoExtract) => htmlOut = byUrlOut

\* the image sources of a page as a reader ranks them: og:image,
\* twitter:image, the image of the first JSON-LD Product that has one, and the
\* first gallery image that has a data-zoom, a srcset or a src
FirstImage(images) ==
    LET found == SelectSeq(images, TruthyImage)
    IN IF found = <<>> THEN NoImage ELSE NormalizeImageUrl(found[1])
ProductImages(scripts) ==
    [i \in DOMAIN scripts |->
        IF scripts[i].type = "Product" THEN scripts[i].image.url ELSE NoImage]
HighestResolution(srcset) ==
    IF srcset = <<>> THEN NoImage
    ELSE LET i == CHOOSE i \in DOMAIN srcset :
                      \A j \in DOMAIN srcset : srcset[i].n >= srcset[j].n
         IN CandImg(srcset[i].url)
GalleryImages(imgs) ==
    [i \in DOMAIN imgs |->
        FirstImage(<<imgs[i].zoom, HighestResolution(imgs[i].srcset), imgs[i].src>>)]
ProductNames(scripts) ==
    [i \in DOMAIN scripts |->
        IF scripts[i].type = "Product" THEN scripts[i].name ELSE NoName]
FirstName(names) ==
    LET found == SelectSeq(names, Truthy)
    IN IF found = <<>> THEN Placeholder ELSE found[1]

\* C28: _scrape_mercadolibre_html takes the image from the first of og:image,
\* twitter:image, JSON-LD Product image and gallery image that provides a
\* value, and the name from og:title before the JSON-LD Product name; in the
\* gallery data-zoom goes before srcset, and from a srcset the candidate of
\* the highest resolution is taken.
C28_FirstSourceWins ==
    (htmlOut # NoExtract) =>
        /\ htmlOut.image =
             FirstImage(<<page.ogImage, page.twImage>>
                        \o ProductImages(page.scripts)
                        \o GalleryImages(page.gallery))
        /\ htmlOut.name = FirstName(<<page.ogTitle>> \o ProductNames(page.scripts))

\* the review acquisition ended in the page scrape, and the fetch or the
\* parsing of the page failed
ReviewPageFailed ==
    /\ plPc \in {"reviews", "completed", "raised"}
    /\ th[1].op = "reviews" /\ th[1].pc = "done"
    /\ th[1].ctx \in {"rev_direct", "rev_fallback"}
    /\ (th[1].rgOut # "return" \/ ~th[1].resp.body.parses)

\* C21: when the item-page fetch or its parsing fails during review
\* acquisition, scrape_reviews returns an empty list and raises nothing, and
\* analyze_product_complete runs to completion and stores the summary of the
\* stored reviews: the neutral-zero summary when the product has none. (Once
\* scrape_reviews has returned nothing stands between the pipeline and its
\* next statements: the step that follows is the one that completes it.)
C21_ScrapeFailureProceeds ==
    /\ [](ReviewPageFailed =>
            /\ th[1].result = ReviewList(0, "item_page")
            /\ plPc # "raised"
            /\ (plPc = "completed") =>
                 /\ analysis = AnalyzeReviewsResult(dbReviews)
                 /\ (dbReviews = <<>>) => analysis = EmptyAnalysis)
    /\ [][(ReviewPageFailed /\ plPc = "reviews") => plPc' = "completed"]_vars

C21_Witness ==
    /\ ReviewPageFailed /\ plPc = "completed"
    /\ th[1].ctx = "rev_fallback" /\ th[1].rgOut = "return"
    /\ dbReviews = <<>> /\ analysis = EmptyAnalysis

\* the API answered with a payload that is not JSON, not an object, or (for
\* the reviews) holds a review whose reviewer is null
Malformed(body) ==
    \/ body.kind \in {"notjson", "notobj"}
    \/ "reviewerNull" \in DOMAIN body /\ body.n > 0 /\ body.reviewerNull

\* C22: a malformed or unexpectedly shaped API payload is treated as a
\* failure of the API tier: scrape_product_api / scrape_reviews_api go on to
\* the item-page tier and raise nothing, so no call ends on such a payload.
C22_MalformedPayloadFallsBack ==
    \A t \in Threads :
        ( /\ th[t].pc = "done" /\ th[t].ctx \in {"api_item", "api_reviews"}
          /\ th[t].rgOut = "return" )
        => ~Malformed(th[t].resp.body)

\* C23: whenever review acquisition falls back to the page scrape, without
\* credential or after a failed API request, the page fetched is
\* https://articulo.mercadolibre.<domain>/<itemID>, the domain looked up under
\* the item ID's site prefix (com.ar when unknown): the URL the product
\* item-page tier fetches for the same item ID.
C23_CanonicalReviewPage ==
    (artVia # "none") =>
        /\ artUrl.tld = TldOf(artItem.prefix)
        /\ artUrl.path = <<artItem.prefix>> \o artItem.rest

\* C24: when the API returned a payload, the price and the image of the
\* snapshot scrape_product_api returns are the payload's (rating, review
\* count and permalink are read from it in the same statement); the item-page
\* scrape changes the name only, and only when the payload's title is missing
\* or a placeholder.
C24_PayloadFieldsOnly ==
    \A t \in Threads :
        ( /\ th[t].pc = "done" /\ th[t].op = "product"
          /\ th[t].data.kind = "obj" )
        => /\ th[t].result.kind = "snapshot" /\ th[t].result.tier = "api"
           /\ th[t].result.image = NormalizeImageUrl(th[t].data.thumbnail)
           /\ th[t].result.price = th[t].data.price
           /\ \/ th[t].result.name = th[t].data.title
              \/ /\ th[t].data.title \in {NoName, EmptyName, "unknown",
                                          "unknown product", "undefined"}
                 /\ \/ th[t].result.name = Placeholder
                    \/ /\ th[t].ctx = "html_enrich" /\ th[t].rgOut = "return"
                       /\ th[t].result.name = PageName(th[t].resp.body)

C24_Witness ==
    /\ th[1].pc = "done" /\ th[1].op = "product" /\ th[1].ctx = "html_enrich"
    /\ th[1].data.kind = "obj" /\ th[1].data.thumbnail = NoImage
    /\ th[1].rgOut = "return" /\ th[1].resp.body.ogImage = OgImg
    /\ th[1].result.name = "OG Title" /\ th[1].result.image = NoImage
    /\ th[1].result.price = Price(100)

\* the analysis has the snapshot of scrape_product
HasProductInfo ==
    /\ plPc \in {"image", "reviews", "completed", "raised"}
    /\ plProduct.result.kind = "snapshot"

\* C25: in analyze_product_complete, when the acquired snapshot has no image
\* the original URL's page is fetched to supply one whether or not strict mode
\* is on, while in strict mode the stored name is never a page's once the API
\* returned a payload: it is the payload's title or derived from the URL.
C25_EnrichmentAsymmetry ==
    /\ (HasProductInfo /\ ~TruthyImage(plProduct.result.image)) =>
          IF plPc = "image"
          THEN /\ th[1].ctx = "by_url"
               /\ th[1].pc # "done" => th[1].rgUrl = RawUrl(plUrl)
          ELSE /\ plImage # NotFetched
               /\ product.image_url = IF TruthyImage(plImage) THEN plImage
                                      ELSE StoredProduct.image_url
    /\ (HasProductInfo /\ strictApi /\ plProduct.data.kind = "obj") =>
          product.name \in {plProduct.data.title, DerivedName}

C25_Witness ==
    /\ plPc = "completed" /\ strictApi
    /\ plProduct.data.kind = "obj" /\ plProduct.data.title = "API Title"
    /\ plProduct.data.thumbnail = NoImage
    /\ plImage = NormalizeImageUrl(OgImg)
    /\ product.image_url = plImage /\ product.name = "API Title"

AdmittedInWindow(k, t) ==
    SelectSeq(rlAdmitted[k], LAMBDA x : x <= t /\ t - x <= WindowSeconds)

\* C29: for every interleaving of concurrent rate_limit calls on one key, the
\* calls admitted with timestamps inside one window never exceed the limit.
C29_ConcurrentCallsBounded ==
    \A k \in Keys : \A t \in 0..MaxClock :
        Len(AdmittedInWindow(k, t)) <= MaxPerMinute

\* C30: whatever the interleaving, at most one of the consume calls for a state
\* returns its verifier, and it is the verifier issued for that state; an entry
\* stays in the store from its issue to the first consume call for its state,
\* whatever calls run meanwhile for other states.
C30_ConcurrentHandshakes ==
    \A s \in States :
        /\ Len(pkGot[s]) <= 1
        /\ \A i \in 1..Len(pkGot[s]) : pkGot[s][i] = pkIssued[s].verifier
        /\ (pkIssued[s] # NoEntry) =>
              PKCE_STORE[s] = IF pkPops[s] = 0 THEN pkIssued[s] ELSE NoEntry

\* two consume calls for s1 in progress at once, one returned the verifier and
\* the other popped nothing, while the entry of s2 is still stored
C30_Witness ==
    /\ pkTh[1].state = "s1" /\ pkTh[1].pc = "done" /\ pkTh[1].out = "v1"
    /\ pkTh[2].state = "s1" /\ pkTh[2].pc = "popped" /\ pkTh[2].item = NoEntry
    /\ pkGot["s1"] = <<"v1">>
    /\ PKCE_STORE["s2"] = pkIssued["s2"] /\ pkIssued["s2"].verifier = "v2"

\* the state of the latest callback named an entry that was stored and no older
\* than the TTL when the request arrived
CallbackStateValid ==
    /\ lastCb.state # NoState
    /\ lastCb.pre[lastCb.state] # NoEntry
    /\ lastCb.at - lastCb.pre[lastCb.state].ts <= PKCE_TTL_SECONDS

\* C31 as stated: at most one token request carries the verifier of a state,
\* and a callback whose state is missing, unknown, expired or already used is
\* answered 400 with no token request sent.
C31_OneExchangeOr400 ==
    /\ \A s \in States : Len(pkPosts[s]) <= 1
    /\ (lastCb.status # 0 /\ ~CallbackStateValid)
          => (~lastCb.posted /\ lastCb.status = 400)

\* C31: at most one token request carries the verifier of a state, also after
\* a failed exchange; a callback whose state is missing, unknown, expired or
\* already used sends no token request and is answered 400, or 500 when the
\* client configuration is incomplete, which the handler tests first.
C31_OneExchangePerState ==
    /\ \A s \in States : Len(pkPosts[s]) <= 1
    /\ (lastCb.status # 0 /\ ~CallbackStateValid)
          => /\ ~lastCb.posted
             /\ lastCb.status = IF lastCb.configured THEN 400 ELSE 500
    /\ lastCb.posted => (CallbackStateValid /\ lastCb.configured)

\* the exchange for s1 failed and a second callback with s1 was answered 400
C31_Witness ==
    /\ pkPosts["s1"] = <<FALSE>>
    /\ lastCb.state = "s1" /\ lastCb.status = 400 /\ ~lastCb.posted
    /\ lastCb.at - pkIssued["s1"].ts <= PKCE_TTL_SECONDS

\* C32: the handshake store is bounded by the TTL: it holds no entry older than
\* the TTL, an entry that is never consumed being removed once it has expired.
C32_StoreBoundedByTtl ==
    \A s \in States :
        (PKCE_STORE[s] # NoEntry) => (now - PKCE_STORE[s].ts <= PKCE_TTL_SECONDS)

\* C33: the keywords of every call have no duplicate and at most top_n
\* entries, also when the fallback filled the list; the entries of the
\* weighted stage come first, each a key of the counters, in descending order
\* of combined weight.
C33_KeywordsDistinctRanked ==
    \A c \in DOMAIN kwOut :
        LET ks == kwOut[c].keywords
            n == kwOut[c].weighted
            weight == kwOut[c].combined_scores
        IN /\ Len(ks) <= TopN
           /\ \A a, b \in DOMAIN ks : ks[a] = ks[b] => a = b
           /\ n <= Len(ks)
           /\ \A a \in 1..n : ks[a] \in DOMAIN weight
           /\ \A a, b \in 1..n : a < b => FlLeq(weight[ks[b]], weight[ks[a]])
           /\ \A a \in (n + 1)..Len(ks) : ks[a] \notin DOMAIN weight

\* one weighted keyword, and the fallback filled the list up to top_n
C33_Witness ==
    /\ Len(kwOut) = 1
    /\ kwOut[1].weighted = 1 /\ Len(kwOut[1].keywords) = TopN
    /\ kwOut[1].keywords[1] = "great"
    /\ Len(reviews) = MaxBatch

\* C34: every keyword of every call, from the weighted stage or from the
\* fallback, is alphabetic, longer than 3 characters and outside the
\* analyzer's stopword set.
C34_KeywordsFiltered ==
    \A c \in DOMAIN kwOut : \A a \in DOMAIN kwOut[c].keywords :
        KeepsWord(kwOut[c].keywords[a], AnalyzerStopWords)

\* word k occurs in the batch, and only in reviews whose score is within 0.05
\* of 0.5
OnlyNearNeutral(k) ==
    \A i \in DOMAIN reviews :
        (\E j \in DOMAIN KeywordTokens(CleanedReviews(reviews)[i]) :
            KeywordTokens(CleanedReviews(reviews)[i])[j] = k)
        => NearNeutral(AnalyzeEach(reviews)[i])

\* C35 as stated: a token that occurs only in near-neutral reviews never
\* appears in the keywords.
C35_NearNeutralNeverKeyword ==
    \A c \in DOMAIN kwOut : \A a \in DOMAIN kwOut[c].keywords :
        ~OnlyNearNeutral(kwOut[c].keywords[a])

\* C35: a near-neutral review adds no weight: a token that occurs only in
\* such reviews is never a keyword of the weighted stage, and is a keyword
\* only when the weighted stage gave too few and the fallback over all the
\* review text ran.
C35_NearNeutralOnlyByFallback ==
    \A c \in DOMAIN kwOut : \A a \in DOMAIN kwOut[c].keywords :
        OnlyNearNeutral(kwOut[c].keywords[a])
        => (a > kwOut[c].weighted /\ kwOut[c].weighted < FallbackBelow)

\* a positive and a near-neutral review: the word of the near-neutral one
\* follows the weighted keyword
C35_Witness ==
    /\ Len(kwOut) = 1 /\ Len(reviews) = 2
    /\ kwOut[1].weighted = 1
    /\ kwOut[1].keywords = <<"great", "phone", "producto">>
    /\ OnlyNearNeutral("phone")

\* C36: all the calls made for a batch, in one process or in two, return the
\* same keywords in the same order.
C36_KeywordsDeterministic ==
    \A c, d \in DOMAIN kwOut : kwOut[c].keywords = kwOut[d].keywords

\* C37: the limit applied at the guarded endpoints is the server's for every
\* request: whatever the query strings, the calls of a key admitted in one
\* window never exceed it, and a call is rejected only when it is reached.
C37_ServerSideLimit ==
    /\ \A k \in Keys : \A t \in 0..MaxClock :
          Len(AdmittedInWindow(k, t)) <= MaxPerMinute
    /\ (lastCall.key # NoKey /\ ~lastCall.admitted)
          => lastCall.inWindow >= MaxPerMinute

\* C38: a request that the API-key gate rejects with 403 records no
\* timestamp in the rate window.
C38_RejectedKeyRecordsNothing ==
    (lastReq.status = 403) => ~lastReq.recorded

\* C39: once POST /meli/refresh has answered 200 with a new access token that
\* is still the one in the environment, the API request the scraper begins
\* next carries that token as its bearer credential.
C39_RefreshedTokenCarried ==
    [][\A t, u \in Threads :
          ( /\ th[u].op = "meli_refresh" /\ th[u].pc = "done"
            /\ th[u].result = HttpResult(200)
            /\ th[u].tokResp.access # NoToken
            /\ th[u].tokResp.access = envAccess
            /\ th[t].pc = "idle"
            /\ th'[t].pc = "rg_get" /\ th'[t].op = "request_get" )
          => th'[t].hdrTok = th[u].tokResp.access]_vars

\* C40: two analyses of one product for which the upstream returned the same
\* review list store the same total_reviews and the same positive, negative
\* and neutral counts.
C40_AnalysisIdempotent ==
    \A i, j \in DOMAIN plRuns :
        (plRuns[i].scraped = plRuns[j].scraped)
        => /\ plRuns[i].summary.total_reviews = plRuns[j].summary.total_reviews
           /\ plRuns[i].summary.positive_count = plRuns[j].summary.positive_count
           /\ plRuns[i].summary.negative_count = plRuns[j].summary.negative_count
           /\ plRuns[i].summary.neutral_count = plRuns[j].summary.neutral_count

====
